---------------------------- MODULE Spec2Model ----------------------------
(***************************************************************************)
(* A model of the DNS-SD toolkit dogmatiq/dissolve: the authoritative      *)
(* unicast responder (dnssd.UnicastServer), the record synthesis it uses   *)
(* and the names it is keyed by.                                           *)
(*                                                                         *)
(* A Go string is a sequence of tokens.  A token is a TLA+ string holding  *)
(* either one character or, in domain names, a run of characters none of   *)
(* which is a dot or needs escaping ("example", "_http").  Concatenation   *)
(* is \o, so a missing or doubled trailing dot makes two names differ.     *)
(***************************************************************************)
EXTENDS Integers, Sequences, FiniteSets, TLC

VARIABLES
    services,   \* UnicastServer.services : enum domain -> serviceRecords
    instances,  \* UnicastServer.instances: instance name -> instanceRecords
    records,    \* UnicastServer.records  : owner -> rrtype -> slice header
    arrays,     \* the backing arrays of the slices held in records
    last,       \* the call that completed last, with its result
    calls,      \* the number of calls made so far
    m,          \* UnicastServer.m, the sync.RWMutex
    writer,     \* the goroutine inside Advertise/Unadvertise
    reader,     \* the goroutine inside the dns.Handler
    stable,     \* the index as the last completed call left it
    run,        \* the goroutines of UnicastServer.Run and its listener
    rq,         \* the goroutines of a UnicastResolver operation
    attrSets,   \* the Attributes values a caller holds and the maps behind them
    fn,         \* the call of a function of the package made last, with its result
    backend     \* a provider-backed advertiser, its provider and its last call

vars == <<services, instances, records, arrays, last, calls, m, writer, reader, stable,
          run, rq, attrSets, fn, backend>>

-----------------------------------------------------------------------------
(* Bounds of the model.                                                    *)

\* Number of distinct instance labels ("Instance A", "Instance B", ...).
NumNames == 2

\* The number of calls of Advertise and Unadvertise in a run.
MaxCalls == 4

\* The largest number of servers in the resolver's dns.ClientConfig.
NumServers == 2

\* The largest number of Attributes values a caller holds.
MaxSets == 3

\* The largest number of characters in a name handed to EscapeInstance or
\* ParseInstance.
MaxLabel == 3

-----------------------------------------------------------------------------
(* Strings.                                                                *)

Dot == <<".">>

RECURSIVE Join(_, _)
\* strings.Join(labels, sep)
Join(labels, sep) ==
    IF Len(labels) = 0 THEN <<>>
    ELSE IF Len(labels) = 1 THEN labels[1]
    ELSE labels[1] \o sep \o Join(Tail(labels), sep)

\* domainname.Absolute
Absolute(labels) == Join(labels, Dot) \o Dot

\* domainname.Relative
Relative(labels) == Join(labels, Dot)

\* The elements of a sequence.
Range(seq) == {seq[k] : k \in 1..Len(seq)}

RECURSIVE SelectSeq2(_, _)
\* The elements of seq that are in S, in their order.
SelectSeq2(seq, S) ==
    IF Len(seq) = 0 THEN <<>>
    ELSE LET head == SelectSeq2(SubSeq(seq, 1, Len(seq) - 1), S)
         IN  IF seq[Len(seq)] \in S THEN Append(head, seq[Len(seq)]) ELSE head

\* The runes of needsEscape: . ' @ ; ( ) " \ and the space.
needsEscape == {".", " ", "'", "@", ";", "(", ")", "\"", "\\"}

RECURSIVE EscapeDots(_)
\* EscapeInstance putting a backslash before dots and nothing else.
EscapeDots(instance) ==
    IF Len(instance) = 0 THEN <<>>
    ELSE (IF instance[1] = "." THEN <<"\\", instance[1]>> ELSE <<instance[1]>>)
         \o EscapeDots(Tail(instance))

RECURSIVE EscapeInstance(_)
EscapeInstance(instance) ==
    IF Len(instance) = 0 THEN <<>>
    ELSE (IF instance[1] \in needsEscape THEN <<"\\", instance[1]>>
                                         ELSE <<instance[1]>>)
         \o EscapeInstance(Tail(instance))

-----------------------------------------------------------------------------
(* Enumeration domains and instance names.                                 *)

RelativeTypeEnumerationDomain ==
    Relative(<< <<"_services">>, <<"_dns-sd">>, <<"_udp">> >>)

AbsoluteTypeEnumerationDomain(domain) ==
    Absolute(<<RelativeTypeEnumerationDomain, domain>>)

RelativeInstanceEnumerationDomain(service) == Relative(<<service>>)

\* The same name without its trailing dot.
EnumerationDomainNoDot(service, domain) ==
    Relative(<<RelativeInstanceEnumerationDomain(service), domain>>)

AbsoluteInstanceEnumerationDomain(service, domain) ==
    Absolute(<<RelativeInstanceEnumerationDomain(service), domain>>)

\* The names without the trailing dot, as the record constructors spell them.
TypeEnumerationDomain(domain) ==
    <<"_services", ".", "_dns-sd", ".", "_udp", ".">> \o domain

InstanceEnumerationDomain(service, domain) == service \o Dot \o domain

SelectiveInstanceEnumerationDomain(subType, service, domain) ==
    subType \o <<".", "_sub", ".">> \o InstanceEnumerationDomain(service, domain)

AbsoluteServiceInstanceName(instance, serviceType, domain) ==
    EscapeInstance(instance) \o Dot \o InstanceEnumerationDomain(serviceType, domain)

\* Go maps as functions.
EmptyMap == <<>>

MapPut(f, k, v) == [x \in DOMAIN f \cup {k} |-> IF x = k THEN v ELSE f[x]]

MapDel(f, k) == [x \in DOMAIN f \ {k} |-> f[x]]

-----------------------------------------------------------------------------
(* Attributes: the map m of normalized key to value.  A value is a byte    *)
(* slice; the nil slice marks a flag.                                       *)

NilBytes == [isNil |-> TRUE, bytes |-> <<>>]

Bytes(b) == [isNil |-> FALSE, bytes |-> b]

\* The octets of the characters that occur in attribute keys of the model.
Ascii ==
    (" " :> 32) @@ ("0" :> 48) @@ ("1" :> 49) @@ ("=" :> 61) @@
    ("a" :> 97) @@ ("b" :> 98) @@ ("e" :> 101) @@ ("f" :> 102) @@
    ("k" :> 107) @@ ("r" :> 114) @@ ("s" :> 115) @@ ("t" :> 116) @@
    ("v" :> 118) @@ ("x" :> 120) @@
    ("\t" :> 9) @@ ("@" :> 64) @@ ("A" :> 65) @@ ("F" :> 70) @@ ("K" :> 75) @@
    ("T" :> 84) @@ ("Z" :> 90) @@ ("[" :> 91) @@ ("z" :> 122) @@ ("~" :> 126) @@
    ("DEL" :> 127) @@
    ("B" :> 66) @@ ("E" :> 69) @@ ("R" :> 82) @@ ("S" :> 83) @@ ("V" :> 86) @@
    ("X" :> 88) @@ ("_" :> 95) @@ ("{" :> 123)

RECURSIVE StrLess(_, _)
\* Go's a < b on strings: bytewise, a proper prefix is smaller.
StrLess(a, b) ==
    IF Len(b) = 0 THEN FALSE
    ELSE IF Len(a) = 0 THEN TRUE
    ELSE IF Ascii[a[1]] # Ascii[b[1]] THEN Ascii[a[1]] < Ascii[b[1]]
    ELSE StrLess(Tail(a), Tail(b))

versionKey == <<"t", "x", "t", "v", "e", "r", "s">>

\* The comparison of ToTXT without the version tag put first.
txtLessUnpinned(a, b) == StrLess(a, b)

\* The comparison function handed to sort.Slice in ToTXT.
txtLess(a, b) ==
    IF a = versionKey THEN TRUE
    ELSE IF b = versionKey THEN FALSE
    ELSE StrLess(a, b)

RECURSIVE SortKeys(_)
SortKeys(keys) ==
    IF keys = {} THEN <<>>
    ELSE LET k == CHOOSE x \in keys : \A y \in keys \ {x} : txtLess(x, y)
         IN  <<k>> \o SortKeys(keys \ {k})

IsEmpty(a) == DOMAIN a = {}

ToTXT(a) ==
    LET pairs == SortKeys(DOMAIN a)
    IN  [n \in 1..Len(pairs) |->
            IF a[pairs[n]].isNil THEN pairs[n]
            ELSE pairs[n] \o <<"=">> \o a[pairs[n]].bytes]

\* The character of an octet.
Chr(n) == CHOOSE c \in DOMAIN Ascii : Ascii[c] = n

\* The key with no letter changed.
keepCase(ch) == ch

\* if 'A' <= ch && ch <= 'Z' { ch += 'a' - 'A' }
toLower(ch) ==
    IF Ascii["A"] <= Ascii[ch] /\ Ascii[ch] <= Ascii["Z"]
    THEN Chr(Ascii[ch] + (Ascii["a"] - Ascii["A"]))
    ELSE ch

RECURSIVE normalizeFrom(_, _)
\* The loop of normalizeAttributeKey from the characters k on, w the
\* builder.
normalizeFrom(k, w) ==
    IF Len(k) = 0 THEN [k |-> w, err |-> "nil"]
    ELSE IF k[1] = "=" THEN [k |-> <<>>, err |-> "key must not contain '=' character"]
    ELSE IF Ascii[k[1]] < 32 \/ Ascii[k[1]] > 126
    THEN [k |-> <<>>, err |-> "key must contain only printable ASCII characters"]
    ELSE normalizeFrom(Tail(k), Append(w, toLower(k[1])))

\* normalizeAttributeKey that tests the key for nothing but being empty.
normalizeUnchecked(k) ==
    IF k = <<>> THEN [k |-> <<>>, err |-> "key must not be empty"]
    ELSE [k |-> [n \in 1..Len(k) |-> toLower(k[n])], err |-> "nil"]

normalizeAttributeKey(k) ==
    IF k = <<>> THEN [k |-> <<>>, err |-> "key must not be empty"]
    ELSE normalizeFrom(k, <<>>)

\* a.m[k]: the zero value, the nil slice, for a key that is not there.
Lookup(a, k) == IF k \in DOMAIN a THEN a[k] ELSE NilBytes

\* a.Get(k); panic is the error mustNormalizeAttributeKey panics with.
Get(a, k) ==
    LET n == normalizeAttributeKey(k)
    IN  IF n.err # "nil" THEN [panic |-> n.err, v |-> NilBytes, ok |-> FALSE]
        ELSE [panic |-> "nil", v |-> Lookup(a, n.k), ok |-> ~Lookup(a, n.k).isNil]

\* The function WithPair hands to mutate, applied to the map a.
WithPair(a, k, v) ==
    LET n == normalizeAttributeKey(k)
    IN  IF n.err # "nil" THEN [panic |-> n.err, m |-> a]
        ELSE [panic |-> "nil", m |-> MapPut(a, n.k, IF v.isNil THEN Bytes(<<>>) ELSE v)]

\* WithFlag leaving a pair of the same key in place.
WithFlagKeepingPair(a, k) ==
    LET n == normalizeAttributeKey(k)
    IN  IF n.err # "nil" THEN [panic |-> n.err, m |-> a]
        ELSE [panic |-> "nil",
              m |-> IF n.k \in DOMAIN a THEN a ELSE MapPut(a, n.k, NilBytes)]

\* The function WithFlag hands to mutate, applied to the map a.
WithFlag(a, k) ==
    LET n == normalizeAttributeKey(k)
    IN  IF n.err # "nil" THEN [panic |-> n.err, m |-> a]
        ELSE [panic |-> "nil", m |-> MapPut(a, n.k, NilBytes)]

RECURSIVE Without(_, _)
\* The function Without hands to mutate, applied to the map a: the keys
\* before a key that is not valid are deleted.
Without(a, keys) ==
    IF Len(keys) = 0 THEN [panic |-> "nil", m |-> a]
    ELSE LET n == normalizeAttributeKey(keys[1])
         IN  IF n.err # "nil" THEN [panic |-> n.err, m |-> a]
             ELSE Without(MapDel(a, n.k), Tail(keys))

\* a.HasFlags(keys...)
HasFlags(a, keys) ==
    \A i \in 1..Len(keys) :
        LET k == normalizeAttributeKey(keys[i]).k
        IN  k \in DOMAIN a /\ a[k].isNil

\* a.Pairs() and a.Flags()
Pairs(a) == [k \in {x \in DOMAIN a : ~a[x].isNil} |-> a[k]]

Flags(a) == {k \in DOMAIN a : a[k].isNil}

\* WithTXT splitting the string at its last '='.
LastIndexByte(str, c) ==
    LET found == {n \in 1..Len(str) : str[n] = c}
    IN  IF found = {} THEN 0 ELSE CHOOSE n \in found : \A k \in found : n >= k

\* strings.IndexByte, counted from 1, and 0 when the byte is not there.
IndexByte(str, c) ==
    LET found == {n \in 1..Len(str) : str[n] = c}
    IN  IF found = {} THEN 0 ELSE CHOOSE n \in found : \A k \in found : n <= k

\* WithTXT reading an empty value as no value.
splitTXTEmptyAsNil(pair, n) ==
    IF n = 0 \/ n = Len(pair) THEN [k |-> SubSeq(pair, 1, Len(pair) - (IF n = 0 THEN 0 ELSE 1)),
                                     v |-> NilBytes]
    ELSE [k |-> SubSeq(pair, 1, n - 1), v |-> Bytes(SubSeq(pair, n + 1, Len(pair)))]

\* The key and value WithTXT reads from pair, which holds an '=' at n > 1
\* or none (n = 0).
splitTXT(pair, n) ==
    IF n = 0 THEN [k |-> pair, v |-> NilBytes]
    ELSE [k |-> SubSeq(pair, 1, n - 1), v |-> Bytes(SubSeq(pair, n + 1, Len(pair)))]

\* a.WithTXT(pair) on the map of a: attrs is the map of the result, same
\* tells that the result is a itself.
WithTXT(a, pair) ==
    IF pair = <<>> THEN [attrs |-> a, ok |-> FALSE, err |-> "nil", same |-> TRUE]
    ELSE LET n == IndexByte(pair, "=")
         IN  IF n = 1 THEN [attrs |-> a, ok |-> FALSE, err |-> "nil", same |-> TRUE]
             ELSE LET kv == splitTXT(pair, n)
                      nk == normalizeAttributeKey(kv.k)
                  IN  IF nk.err # "nil"
                      THEN [attrs |-> EmptyMap, ok |-> FALSE, err |-> nk.err, same |-> FALSE]
                      ELSE [attrs |-> MapPut(a, nk.k, kv.v), ok |-> TRUE, err |-> "nil",
                            same |-> FALSE]

RECURSIVE insertSorted(_, _)
\* k put into the sorted keys where the comparison of ToTXT has it.
insertSorted(sorted, k) ==
    IF Len(sorted) = 0 THEN <<k>>
    ELSE IF txtLess(k, sorted[1]) THEN <<k>> \o sorted
    ELSE <<sorted[1]>> \o insertSorted(Tail(sorted), k)

RECURSIVE sortSlice(_)
\* sort.Slice(pairs, less) on the keys in the order the map was ranged over.
sortSlice(order) ==
    IF Len(order) = 0 THEN <<>>
    ELSE insertSorted(sortSlice(SubSeq(order, 1, Len(order) - 1)), order[Len(order)])

\* a.ToTXT() with the map ranged over in the given order.
ToTXTFrom(a, order) ==
    LET pairs == sortSlice(order)
    IN  [n \in 1..Len(pairs) |->
            IF a[pairs[n]].isNil THEN pairs[n]
            ELSE pairs[n] \o <<"=">> \o a[pairs[n]].bytes]

-----------------------------------------------------------------------------
(* net.IP: a byte slice of length 4 or 16 (any other length is invalid).   *)
(* form is the length and layout of the slice, addr the address it holds.  *)

NilIP == [form |-> "nil", addr |-> ""]

To4(ip) ==
    IF ip.form \in {"4", "4in16"} THEN [form |-> "4", addr |-> ip.addr] ELSE NilIP

To16(ip) ==
    IF ip.form = "4" THEN [form |-> "4in16", addr |-> ip.addr]
    ELSE IF ip.form \in {"4in16", "16"} THEN ip
    ELSE NilIP

-----------------------------------------------------------------------------
(* Advertise options.                                                      *)

WithIPAddress(ip) == [option |-> "IPAddress", ip |-> ip, subType |-> <<>>]

WithServiceSubType(subType) == [option |-> "ServiceSubType", ip |-> NilIP, subType |-> subType]

RECURSIVE resolveAdvertiseOptions(_)
resolveAdvertiseOptions(options) ==
    IF Len(options) = 0 THEN [IPAddresses |-> <<>>, ServiceSubTypes |-> <<>>]
    ELSE LET n    == Len(options)
             opts == resolveAdvertiseOptions(SubSeq(options, 1, n - 1))
             opt  == options[n]
         IN  IF opt.option = "IPAddress"
             THEN [opts EXCEPT !.IPAddresses = Append(@, opt.ip)]
             ELSE [opts EXCEPT !.ServiceSubTypes = Append(@, opt.subType)]

-----------------------------------------------------------------------------
(* Record synthesis.  A time.Duration is counted in milliseconds.  A       *)
(* dns.RR is a record of its header fields and its rdata; ptr is the       *)
(* address of the Go object, which the constructors leave to the caller    *)
(* to fill in (NoPtr until then).                                          *)

Millisecond == 1

Second == 1000

DefaultTTL == 120000

NoPtr == [site |-> <<>>, n |-> 0]

\* ttlInSeconds counting a started second as a whole one.
ttlInSecondsStarted(ttl) ==
    ((IF ttl <= 0 THEN DefaultTTL ELSE ttl) + Second - Millisecond) \div Second

\* ttlInSeconds taking the default for a negative TTL only.
ttlInSecondsOfZero(ttl) == (IF ttl < 0 THEN DefaultTTL ELSE ttl) \div Second

ttlInSeconds(ttl) == (IF ttl <= 0 THEN DefaultTTL ELSE ttl) \div Second

Hdr(name, rrtype, ttl) ==
    [Name |-> name, Rrtype |-> rrtype, Class |-> "IN", Ttl |-> ttlInSeconds(ttl)]

RR(hdr, rdata) ==
    [ptr |-> NoPtr, Name |-> hdr.Name, Rrtype |-> hdr.Rrtype, Class |-> hdr.Class,
     Ttl |-> hdr.Ttl, rdata |-> rdata]

NewPTRRecord(i) ==
    RR(Hdr(InstanceEnumerationDomain(i.ServiceType, i.Domain) \o Dot, "PTR", i.TTL),
       [Ptr |-> AbsoluteServiceInstanceName(i.Name, i.ServiceType, i.Domain) \o Dot])

NewSRVRecord(i) ==
    RR(Hdr(AbsoluteServiceInstanceName(i.Name, i.ServiceType, i.Domain) \o Dot, "SRV", i.TTL),
       [Priority |-> i.Priority, Weight |-> i.Weight,
        Target |-> i.TargetHost \o Dot, Port |-> i.TargetPort])

RECURSIVE nonEmptyTXT(_, _)
\* The loop of NewTXTRecords: one record per non-empty set of attributes.
nonEmptyTXT(header, attributes) ==
    IF Len(attributes) = 0 THEN <<>>
    ELSE LET n    == Len(attributes)
             head == nonEmptyTXT(header, SubSeq(attributes, 1, n - 1))
         IN  IF ~IsEmpty(attributes[n])
             THEN Append(head, RR(header, [Txt |-> ToTXT(attributes[n])]))
             ELSE head

\* NewTXTRecords returning no record for an instance without attributes.
NewTXTRecordsOrNone(i) ==
    nonEmptyTXT(Hdr(AbsoluteServiceInstanceName(i.Name, i.ServiceType, i.Domain) \o Dot,
                    "TXT", i.TTL),
                i.Attributes)

NewTXTRecords(i) ==
    LET header == Hdr(AbsoluteServiceInstanceName(i.Name, i.ServiceType, i.Domain) \o Dot,
                      "TXT", i.TTL)
        recs   == nonEmptyTXT(header, i.Attributes)
    IN  IF Len(recs) = 0 THEN <<RR(header, [Txt |-> << <<>> >>])>> ELSE recs

NewServiceSubTypePTRRecord(i, subType) ==
    RR(Hdr(SelectiveInstanceEnumerationDomain(subType, i.ServiceType, i.Domain) \o Dot,
           "PTR", i.TTL),
       [Ptr |-> AbsoluteServiceInstanceName(i.Name, i.ServiceType, i.Domain) \o Dot])

NewARecord(i, ip) ==
    RR(Hdr(i.TargetHost \o Dot, "A", i.TTL), [A |-> To4(ip)])

NewAAAARecord(i, ip) ==
    RR(Hdr(i.TargetHost \o Dot, "AAAA", i.TTL), [AAAA |-> To16(ip)])

NewServiceTypePTRRecord(serviceType, domain, ttl) ==
    RR(Hdr(TypeEnumerationDomain(domain) \o Dot, "PTR", ttl),
       [Ptr |-> InstanceEnumerationDomain(serviceType, domain) \o Dot])

RECURSIVE subTypeRecords(_, _)
subTypeRecords(i, subTypes) ==
    IF Len(subTypes) = 0 THEN <<>>
    ELSE LET n == Len(subTypes)
         IN  Append(subTypeRecords(i, SubSeq(subTypes, 1, n - 1)),
                    NewServiceSubTypePTRRecord(i, subTypes[n]))

RECURSIVE addressRecordsOfBoth(_, _)
\* The loop with two independent tests: To16 is not nil for an IPv4
\* address either, which then gets an A and an AAAA record.
addressRecordsOfBoth(i, ips) ==
    IF Len(ips) = 0 THEN <<>>
    ELSE LET n    == Len(ips)
             head == addressRecordsOfBoth(i, SubSeq(ips, 1, n - 1))
             a    == IF To4(ips[n]) # NilIP THEN <<NewARecord(i, ips[n])>> ELSE <<>>
             aaaa == IF To16(ips[n]) # NilIP THEN <<NewAAAARecord(i, ips[n])>> ELSE <<>>
         IN  head \o a \o aaaa

RECURSIVE addressRecords(_, _)
addressRecords(i, ips) ==
    IF Len(ips) = 0 THEN <<>>
    ELSE LET n    == Len(ips)
             head == addressRecords(i, SubSeq(ips, 1, n - 1))
         IN  IF To4(ips[n]) # NilIP THEN Append(head, NewARecord(i, ips[n]))
             ELSE IF To16(ips[n]) # NilIP THEN Append(head, NewAAAARecord(i, ips[n]))
             ELSE head

NewRecords(i, options) ==
    LET opts == resolveAdvertiseOptions(options)
    IN  <<NewPTRRecord(i), NewSRVRecord(i)>>
        \o NewTXTRecords(i)
        \o subTypeRecords(i, opts.ServiceSubTypes)
        \o addressRecords(i, opts.IPAddresses)

\* rr.String(): the header fields and the rdata, and nothing of the address.
RRString(rr) == <<rr.Name, rr.Ttl, rr.Class, rr.Rrtype, rr.rdata>>

-----------------------------------------------------------------------------
(* Go maps and slices.  A map is a function whose domain is its key set;   *)
(* reading a missing key (or a nil map) gives the zero value.  A slice is  *)
(* a header [arr, len] over a backing array in arrays, whose length is the *)
(* slice's capacity; cells beyond len hold NilRR.                          *)

NilRR == [ptr |-> NoPtr]

NoArr == [owner |-> <<>>, rrtype |-> "", k |-> 0]

NilSlice == [arr |-> NoArr, len |-> 0]

Cap(arrs, sl) == IF sl.arr \in DOMAIN arrs THEN Len(arrs[sl.arr]) ELSE 0

\* The elements sl[0:len] of a slice.
Elems(arrs, sl) == IF sl.len = 0 THEN <<>> ELSE SubSeq(arrs[sl.arr], 1, sl.len)

\* The server's state as one value: the three maps and the heap of arrays.
State(sv, ins, rs, arrs) ==
    [services |-> sv, instances |-> ins, records |-> rs, arrays |-> arrs]

\* s.records[name], the inner map of an owner name.
domainRecordsOf(st, name) ==
    IF name \in DOMAIN st.records THEN st.records[name] ELSE EmptyMap

\* s.records[name][rrtype], the slice of one type at an owner name.
typeRecordsOf(st, name, rrtype) ==
    LET domainRecords == domainRecordsOf(st, name)
    IN  IF rrtype \in DOMAIN domainRecords THEN domainRecords[rrtype] ELSE NilSlice

\* The arrays still referenced by the index or by one of the slices in refs;
\* the rest is garbage.
Collect(st, refs) ==
    LET live == UNION {{st.records[n][t].arr : t \in DOMAIN st.records[n]} :
                          n \in DOMAIN st.records}
                \cup {sl.arr : sl \in refs}
    IN  [st EXCEPT !.arrays = [a \in DOMAIN st.arrays \cap live |-> st.arrays[a]]]

\* append(sl, rr) for the slice at (owner, rrtype): in place while the
\* capacity lasts, else into a new array of twice the capacity.
appendRR(st, owner, rrtype, sl, rr) ==
    IF sl.len < Cap(st.arrays, sl)
    THEN [arrays |-> [st.arrays EXCEPT ![sl.arr][sl.len + 1] = rr],
          slice  |-> [sl EXCEPT !.len = @ + 1]]
    ELSE LET cap    == Cap(st.arrays, sl)
             newcap == IF cap = 0 THEN 1 ELSE 2 * cap
             k      == CHOOSE j \in 0..Cardinality(DOMAIN st.arrays) :
                          /\ [owner |-> owner, rrtype |-> rrtype, k |-> j] \notin DOMAIN st.arrays
                          /\ \A i \in 0..(j - 1) :
                                [owner |-> owner, rrtype |-> rrtype, k |-> i] \in DOMAIN st.arrays
             arr    == [owner |-> owner, rrtype |-> rrtype, k |-> k]
             cells  == [i \in 1..newcap |->
                          IF i <= sl.len THEN st.arrays[sl.arr][i]
                          ELSE IF i = sl.len + 1 THEN rr ELSE NilRR]
         IN  [arrays |-> MapPut(st.arrays, arr, cells),
              slice  |-> [arr |-> arr, len |-> sl.len + 1]]

-----------------------------------------------------------------------------
(* UnicastServer: the operations on the index.  Each takes the server's    *)
(* state and returns the state it leaves.  A nil map reads as an empty     *)
(* one, and Advertise allocates the maps before the first write, so the    *)
(* maps of a new server are modelled as empty.                             *)

addRecord(st, rr) ==
    LET domainRecords == domainRecordsOf(st, rr.Name)
        grown == appendRR(st, rr.Name, rr.Rrtype,
                          typeRecordsOf(st, rr.Name, rr.Rrtype), rr)
    IN  [st EXCEPT !.arrays  = grown.arrays,
                   !.records = MapPut(st.records, rr.Name,
                                      MapPut(domainRecords, rr.Rrtype, grown.slice))]

\* A removal that shrinks the slice without moving its last element into
\* the freed position.
removeRecordNoSwap(st, rr) ==
    LET domainRecords == domainRecordsOf(st, rr.Name)
        typeRecords   == typeRecordsOf(st, rr.Name, rr.Rrtype)
        elems         == Elems(st.arrays, typeRecords)
        found         == {i \in 1..typeRecords.len : elems[i].ptr = rr.ptr}
    IN  IF found = {} THEN st
        ELSE LET last1 == typeRecords.len
             IN  IF last1 = 1
                 THEN LET rest == MapDel(domainRecords, rr.Rrtype)
                      IN  [st EXCEPT !.records =
                              IF DOMAIN rest = {} THEN MapDel(st.records, rr.Name)
                              ELSE MapPut(st.records, rr.Name, rest)]
                 ELSE [st EXCEPT
                          !.arrays[typeRecords.arr][last1] = NilRR,
                          !.records[rr.Name][rr.Rrtype] =
                              [typeRecords EXCEPT !.len = last1 - 1]]

\* A removal that deletes the list of a type when it empties and leaves the
\* owner name in the index with the empty map.
removeRecordKeepsOwner(st, rr) ==
    LET domainRecords == domainRecordsOf(st, rr.Name)
        typeRecords   == typeRecordsOf(st, rr.Name, rr.Rrtype)
        found         == {i \in 1..typeRecords.len :
                             Elems(st.arrays, typeRecords)[i].ptr = rr.ptr}
    IN  IF found # {} /\ typeRecords.len = 1
        THEN [st EXCEPT !.records =
                 MapPut(st.records, rr.Name, MapDel(domainRecords, rr.Rrtype))]
        ELSE removeRecordNoSwap(st, rr)

\* A removal that takes the first record of the list with the content of
\* rr, whichever object it is.
removeRecordByContent(st, rr) ==
    LET domainRecords == domainRecordsOf(st, rr.Name)
        typeRecords   == typeRecordsOf(st, rr.Name, rr.Rrtype)
        elems         == Elems(st.arrays, typeRecords)
        found         == {i \in 1..typeRecords.len : RRString(elems[i]) = RRString(rr)}
    IN  IF found = {} THEN st
        ELSE LET i    == CHOOSE x \in found : \A y \in found : x <= y
                 last1 == typeRecords.len
             IN  IF last1 = 1
                 THEN LET rest == MapDel(domainRecords, rr.Rrtype)
                      IN  [st EXCEPT !.records =
                              IF DOMAIN rest = {} THEN MapDel(st.records, rr.Name)
                              ELSE MapPut(st.records, rr.Name, rest)]
                 ELSE LET arr == st.arrays[typeRecords.arr]
                      IN  [st EXCEPT
                              !.arrays[typeRecords.arr] =
                                  [n \in 1..Len(arr) |->
                                      IF n = last1 THEN NilRR
                                      ELSE IF n = i THEN arr[last1] ELSE arr[n]],
                              !.records[rr.Name][rr.Rrtype] =
                                  [typeRecords EXCEPT !.len = last1 - 1]]

removeRecord(st, rr) ==
    LET domainRecords == domainRecordsOf(st, rr.Name)
        typeRecords   == typeRecordsOf(st, rr.Name, rr.Rrtype)
        elems         == Elems(st.arrays, typeRecords)
        found         == {i \in 1..typeRecords.len : elems[i].ptr = rr.ptr}
    IN  IF found = {} THEN st
        ELSE LET i    == CHOOSE x \in found : \A y \in found : x <= y
                 last1 == typeRecords.len
             IN  IF last1 = 1
                 THEN LET rest == MapDel(domainRecords, rr.Rrtype)
                      IN  [st EXCEPT !.records =
                              IF DOMAIN rest = {} THEN MapDel(st.records, rr.Name)
                              ELSE MapPut(st.records, rr.Name, rest)]
                 ELSE LET arr == st.arrays[typeRecords.arr]
                      IN  [st EXCEPT
                              !.arrays[typeRecords.arr] =
                                  [n \in 1..Len(arr) |->
                                      IF n = last1 THEN NilRR
                                      ELSE IF n = i THEN arr[last1] ELSE arr[n]],
                              !.records[rr.Name][rr.Rrtype] =
                                  [typeRecords EXCEPT !.len = last1 - 1]]

hasRecord(st, rr) ==
    LET elems == Elems(st.arrays, typeRecordsOf(st, rr.Name, rr.Rrtype))
    IN  \E n \in 1..Len(elems) : RRString(elems[n]) = RRString(rr)

hasRecords(st, recs) == \A n \in 1..Len(recs) : hasRecord(st, recs[n])

RECURSIVE removeRecords(_, _)
\* for _, rr := range ir.records { s.removeRecord(rr) }
removeRecords(st, recs) ==
    IF Len(recs) = 0 THEN st
    ELSE removeRecords(removeRecord(st, recs[1]), Tail(recs))

RECURSIVE addRecords(_, _)
\* for _, rr := range records { s.addRecord(rr) }
addRecords(st, recs) ==
    IF Len(recs) = 0 THEN st
    ELSE addRecords(addRecord(st, recs[1]), Tail(recs))

\* A removal that leaves the count of the service type, and the service
\* type's entry, as they are.
uncountInstanceNever(st, name) == st

\* removeInstance, lines 127-132.  ir.serviceRecords is a pointer to the
\* serviceRecords object; the object is the one stored in services under
\* the key it was created with.
uncountInstance(st, name) ==
    LET ir  == st.instances[name]
        sr  == [st.services[ir.serviceRecords] EXCEPT !.instanceCount = @ - 1]
        st1 == [st EXCEPT !.services[ir.serviceRecords] = sr]
    IN  IF sr.instanceCount = 0
        THEN LET st2 == removeRecord(st1, sr.typeEnumRecord)
             IN  [st2 EXCEPT !.services =
                     MapDel(st2.services, sr.typeEnumRecord.rdata.Ptr)]
        ELSE st1

\* delete(s.instances, name)
dropInstance(st, name) == [st EXCEPT !.instances = MapDel(st.instances, name)]

removeInstance(st, name) ==
    IF name \notin DOMAIN st.instances THEN [st |-> st, ok |-> FALSE]
    ELSE LET st1 == uncountInstance(st, name)
             st2 == removeRecords(st1, st.instances[name].records)
         IN  [st |-> dropInstance(st2, name), ok |-> TRUE]

\* The objects NewRecords allocates for one call of Advertise: record n of
\* the call for instance name.  The entry that held the objects of an
\* earlier call for the same name is removed before these are added.
Allocate(name, recs) ==
    [n \in 1..Len(recs) |-> [recs[n] EXCEPT !.ptr = [site |-> name, n |-> n]]]

\* An Advertise that creates the service type's entry, with a count of 1 and
\* a type PTR record of its own, whether the map has one or not.
countInstanceAnew(st, inst) ==
    LET enumDomain == AbsoluteInstanceEnumerationDomain(inst.ServiceType, inst.Domain)
        sr == [typeEnumRecord |->
                  [NewServiceTypePTRRecord(inst.ServiceType, inst.Domain, 0)
                      EXCEPT !.ptr = [site |-> enumDomain, n |-> 0]],
               instanceCount |-> 1]
    IN  addRecord([st EXCEPT !.services = MapPut(st.services, enumDomain, sr)],
                  sr.typeEnumRecord)

\* Advertise, lines 84-97: find or create the service type's entry.
countInstance(st, inst) ==
    LET enumDomain == AbsoluteInstanceEnumerationDomain(inst.ServiceType, inst.Domain)
    IN  IF enumDomain \in DOMAIN st.services
        THEN [st EXCEPT !.services[enumDomain].instanceCount = @ + 1]
        ELSE LET sr == [typeEnumRecord |->
                            [NewServiceTypePTRRecord(inst.ServiceType, inst.Domain, 0)
                                EXCEPT !.ptr = [site |-> enumDomain, n |-> 0]],
                        instanceCount |-> 1]
             IN  addRecord([st EXCEPT !.services = MapPut(st.services, enumDomain, sr)],
                           sr.typeEnumRecord)

\* Advertise, line 99: s.instances[name] = &instanceRecords{sr, records}
putInstance(st, name, inst, recs) ==
    LET enumDomain == AbsoluteInstanceEnumerationDomain(inst.ServiceType, inst.Domain)
    IN  [st EXCEPT !.instances =
            MapPut(st.instances, name, [serviceRecords |-> enumDomain, records |-> recs])]

\* Advertise, between Lock and Unlock.
advertise(st, inst, options) ==
    LET name == AbsoluteServiceInstanceName(inst.Name, inst.ServiceType, inst.Domain)
        recs == Allocate(name, NewRecords(inst, options))
    IN  IF hasRecords(st, recs) THEN [st |-> st, changed |-> FALSE]
        ELSE LET st1 == removeInstance(st, name).st
                 st2 == countInstance(st1, inst)
                 st3 == putInstance(st2, name, inst, recs)
             IN  [st |-> addRecords(st3, recs), changed |-> TRUE]

\* An Unadvertise that leaves an entry alone unless the SRV record it holds
\* is the one of the passed instance.
unadvertiseMatching(st, inst) ==
    LET name == AbsoluteServiceInstanceName(inst.Name, inst.ServiceType, inst.Domain)
        r    == removeInstance(st, name)
    IN  IF /\ name \in DOMAIN st.instances
           /\ RRString(st.instances[name].records[2]) # RRString(NewSRVRecord(inst))
        THEN [st |-> st, changed |-> FALSE]
        ELSE [st |-> r.st, changed |-> r.ok]

\* Unadvertise, between Lock and Unlock.
unadvertise(st, inst) ==
    LET name == AbsoluteServiceInstanceName(inst.Name, inst.ServiceType, inst.Domain)
        r    == removeInstance(st, name)
    IN  [st |-> r.st, changed |-> r.ok]

-----------------------------------------------------------------------------
(* The Attributes values of a caller.  An Attributes is a struct holding a *)
(* map, and a Go map is a reference: maps holds the maps that were made,   *)
(* sets the value of each Attributes the caller holds, which is the        *)
(* address of its map, 0 for the nil map of NewAttributes().               *)

\* The caller holds NewAttributes().
NoAttributes ==
    [maps |-> <<>>, sets |-> <<0>>, made |-> <<[op |-> "NewAttributes"]>>,
     last |-> [op |-> "none"]]

\* The entries of the map at an address.
MapAt(heap, p) == IF p = 0 THEN EmptyMap ELSE heap.maps[p]

\* The entries of the map of the Attributes the caller holds as number h.
SetAt(heap, h) == MapAt(heap, heap.sets[h])

\* mutate with fn applied to a.m itself.
mutateInPlace(heap, p, r) ==
    IF p = 0 THEN [maps |-> Append(heap.maps, r.m), set |-> Len(heap.maps) + 1]
    ELSE [maps |-> [heap.maps EXCEPT ![p] = r.m], set |-> p]

\* a.mutate(fn), a.m at address p: a map is made, the entries of a.m are
\* copied into it and fn is applied to it; r.m is what fn leaves in it.  A
\* map whose fn panicked is held by nobody.
mutate(heap, p, r) ==
    IF r.panic # "nil" THEN [maps |-> heap.maps, set |-> p]
    ELSE [maps |-> Append(heap.maps, r.m), set |-> Len(heap.maps) + 1]

-----------------------------------------------------------------------------
(* The provider-backed advertisers.  An advertiser is followed through one *)
(* call at a time: c holds its cache of zones (zoneIDs of route53, zones   *)
(* of dnsimple), the zones the provider hosts with their records, the      *)
(* calls of the provider's API made so far in this call and the number of  *)
(* the API call that fails in it (0 when none does).                       *)

NoError == [type |-> "nil"]

Errorf(msg) == [type |-> "error", msg |-> msg]

\* dnssd.UnsupportedDomainError{Domain: domain, Cause: ...}
UnsupportedDomainError(domain, cause) ==
    [type |-> "UnsupportedDomainError", Domain |-> domain, Cause |-> cause]

\* The calls of the provider's API that change what the provider holds.
Writes ==
    {"ChangeResourceRecordSets", "DeleteRecord", "UpdateRecord", "CreateRecord"}

\* The API call api is made: it is the next of this call.
Called(c, api) == [c EXCEPT !.api = Append(@, api)]

\* The API call made last is the one that fails.
Failed(c) == Len(c.api) = c.fail

\* int64(d.Seconds()): the whole seconds of a duration, towards zero.
Seconds(d) == IF d >= 0 THEN d \div Second ELSE 0 - ((0 - d) \div Second)

NonExistent == <<"non-existent", ".", "example", ".", "org">>

OtherOrg == <<"other", ".", "org">>

ZzzOrg == <<"zzz", ".", "org">>

\* The names of zones in the order Route 53 lists them, which is the order
\* of the names with their labels reversed: org.example,
\* org.example.non-existent, org.other, org.zzz.
HostedZoneOrder == <<<<"example", ".", "org">>, NonExistent, OtherOrg, ZzzOrg>>

\* ListHostedZonesByName: the hosted zones from dnsName on, maxItems at most.
ListHostedZonesByName(zones, dnsName, maxItems) ==
    LET from   == CHOOSE n \in 1..Len(HostedZoneOrder) : HostedZoneOrder[n] \o Dot = dnsName
        listed == SelectSeq2(SubSeq(HostedZoneOrder, from, Len(HostedZoneOrder)),
                             DOMAIN zones)
        out    == [n \in 1..Len(listed) |-> [Name |-> listed[n] \o Dot, Id |-> listed[n]]]
    IN  SubSeq(out, 1, IF Len(out) < maxItems THEN Len(out) ELSE maxItems)

\* lookupZoneID returning the zone that is listed first, whatever its name.
route53_lookupZoneIDListedFirst(c, domain) ==
    IF domain \in DOMAIN c.cache
    THEN [c |-> c, zone |-> c.cache[domain], err |-> NoError]
    ELSE LET c1  == Called(c, "ListHostedZonesByName")
             out == ListHostedZonesByName(c1.zones, domain \o Dot, 1)
         IN  IF Failed(c1)
             THEN [c |-> c1, zone |-> <<>>, err |-> Errorf("unable to list zones")]
             ELSE IF Len(out) > 0
             THEN [c    |-> [c1 EXCEPT !.cache = MapPut(@, domain, out[1].Id)],
                   zone |-> out[1].Id, err |-> NoError]
             ELSE [c |-> c1, zone |-> <<>>,
                   err |-> UnsupportedDomainError(domain, "no AWS Route53 zone found")]

route53_lookupZoneID(c, domain) ==
    IF domain \in DOMAIN c.cache
    THEN [c |-> c, zone |-> c.cache[domain], err |-> NoError]
    ELSE LET c1  == Called(c, "ListHostedZonesByName")
             out == ListHostedZonesByName(c1.zones, domain \o Dot, 1)
         IN  IF Failed(c1)
             THEN [c |-> c1, zone |-> <<>>, err |-> Errorf("unable to list zones")]
             ELSE IF Len(out) > 0 /\ out[1].Name = domain \o Dot
             THEN [c    |-> [c1 EXCEPT !.cache = MapPut(@, domain, out[1].Id)],
                   zone |-> out[1].Id, err |-> NoError]
             ELSE [c |-> c1, zone |-> <<>>,
                   err |-> UnsupportedDomainError(domain, "no AWS Route53 zone found")]

\* instanceName(inst) and serviceName(inst)
instanceName(inst) == AbsoluteServiceInstanceName(inst.Name, inst.ServiceType, inst.Domain)

serviceName(inst) == AbsoluteInstanceEnumerationDomain(inst.ServiceType, inst.Domain)

\* The record sets of a zone are held by type and name; there is one set of
\* a type and name at a time outside a change batch.
route53_findResourceRecordSet(c, zoneID, name, recordType) ==
    LET c1  == Called(c, "ListResourceRecordSets")
        key == <<recordType, name>>
    IN  IF Failed(c1) THEN [c |-> c1, set |-> <<>>, ok |-> FALSE, err |-> Errorf("list")]
        ELSE IF key \in DOMAIN c1.zones[zoneID]
        THEN [c |-> c1, set |-> c1.zones[zoneID][key], ok |-> TRUE, err |-> NoError]
        ELSE [c |-> c1, set |-> <<>>, ok |-> FALSE, err |-> NoError]

\* ptrTTL, in seconds.
ptrTTL == 30

\* indexOf(set, inst): whether the set holds the name of the instance.
indexOf(set, inst) ==
    IF \E n \in 1..Len(set.ResourceRecords) : set.ResourceRecords[n] = instanceName(inst)
    THEN CHOOSE n \in 1..Len(set.ResourceRecords) :
            /\ set.ResourceRecords[n] = instanceName(inst)
            /\ \A k \in 1..(n - 1) : set.ResourceRecords[k] # instanceName(inst)
    ELSE 0 - 1

Change(action, set) == [Action |-> action, ResourceRecordSet |-> set]

\* Each sync and delete function takes the changes made out so far and
\* returns them with its own.
route53_syncPTR(c, zoneID, inst, cs) ==
    LET desired == [SetIdentifier |-> 0, Type |-> "PTR", Name |-> serviceName(inst),
                    TTL |-> ptrTTL, ResourceRecords |-> <<NewPTRRecord(inst).rdata.Ptr>>]
        f       == route53_findResourceRecordSet(c, zoneID, serviceName(inst), "PTR")
    IN  IF f.err # NoError THEN [c |-> f.c, cs |-> cs, err |-> f.err]
        ELSE IF ~f.ok
        THEN [c |-> f.c, cs |-> Append(cs, Change("CREATE", desired)), err |-> NoError]
        ELSE IF indexOf(f.set, inst) # 0 - 1 THEN [c |-> f.c, cs |-> cs, err |-> NoError]
        ELSE [c  |-> f.c,
              cs |-> cs \o <<Change("CREATE",
                                    [desired EXCEPT
                                        !.SetIdentifier = f.set.SetIdentifier + 1,
                                        !.ResourceRecords = @ \o f.set.ResourceRecords]),
                             Change("DELETE", f.set)>>,
              err |-> NoError]

\* syncSRV and syncTXT: the set of the instance's name is made the desired one.
route53_sync(c, zoneID, recordType, desired, cs) ==
    LET f == route53_findResourceRecordSet(c, zoneID, desired.Name, recordType)
    IN  IF f.err # NoError THEN [c |-> f.c, cs |-> cs, err |-> f.err]
        ELSE IF ~f.ok
        THEN [c |-> f.c, cs |-> Append(cs, Change("CREATE", desired)), err |-> NoError]
        ELSE IF f.set = desired THEN [c |-> f.c, cs |-> cs, err |-> NoError]
        ELSE [c |-> f.c, cs |-> Append(cs, Change("UPSERT", desired)), err |-> NoError]

route53_syncSRV(c, zoneID, inst, cs) ==
    route53_sync(c, zoneID, "SRV",
                 [SetIdentifier |-> 0, Type |-> "SRV", Name |-> instanceName(inst),
                  TTL |-> Seconds(inst.TTL),
                  ResourceRecords |-> <<NewSRVRecord(inst).rdata>>],
                 cs)

route53_syncTXT(c, zoneID, inst, cs) ==
    LET txt == NewTXTRecords(inst)
    IN  route53_sync(c, zoneID, "TXT",
                     [SetIdentifier |-> 0, Type |-> "TXT", Name |-> instanceName(inst),
                      TTL |-> Seconds(inst.TTL),
                      ResourceRecords |-> [n \in 1..Len(txt) |-> txt[n].rdata]],
                     cs)

route53_deletePTR(c, zoneID, inst, cs) ==
    LET f     == route53_findResourceRecordSet(c, zoneID, serviceName(inst), "PTR")
        index == indexOf(f.set, inst)
        rest  == SubSeq(f.set.ResourceRecords, 1, index - 1)
                 \o SubSeq(f.set.ResourceRecords, index + 1, Len(f.set.ResourceRecords))
        desired == [SetIdentifier |-> f.set.SetIdentifier + 1, Type |-> "PTR",
                    Name |-> serviceName(inst), TTL |-> ptrTTL, ResourceRecords |-> rest]
    IN  IF ~f.ok \/ f.err # NoError THEN [c |-> f.c, cs |-> cs, err |-> f.err]
        ELSE IF index = 0 - 1 THEN [c |-> f.c, cs |-> cs, err |-> NoError]
        ELSE [c  |-> f.c,
              cs |-> Append(cs, Change("DELETE", f.set))
                     \o (IF Len(rest) # 0 THEN <<Change("CREATE", desired)>> ELSE <<>>),
              err |-> NoError]

\* deleteSRV and deleteTXT
route53_delete(c, zoneID, inst, recordType, cs) ==
    LET f == route53_findResourceRecordSet(c, zoneID, instanceName(inst), recordType)
    IN  IF f.err # NoError THEN [c |-> f.c, cs |-> cs, err |-> f.err]
        ELSE IF f.ok
        THEN [c |-> f.c, cs |-> Append(cs, Change("DELETE", f.set)), err |-> NoError]
        ELSE [c |-> f.c, cs |-> cs, err |-> NoError]

RECURSIVE ChangeResourceRecordSets(_, _)
\* The change batch applied to a zone, change by change.
ChangeResourceRecordSets(zone, cs) ==
    IF Len(cs) = 0 THEN zone
    ELSE LET set == cs[1].ResourceRecordSet
             key == <<set.Type, set.Name>>
         IN  ChangeResourceRecordSets(
                 IF cs[1].Action = "DELETE"
                 THEN (IF key \in DOMAIN zone /\ zone[key] = set THEN MapDel(zone, key)
                       ELSE zone)
                 ELSE MapPut(zone, key, set),
                 Tail(cs))

route53_apply(c, zoneID, cs) ==
    IF Len(cs) = 0 THEN [c |-> c, changed |-> FALSE, err |-> NoError]
    ELSE LET c1 == Called(c, "ChangeResourceRecordSets")
         IN  IF Failed(c1) THEN [c |-> c1, changed |-> TRUE, err |-> Errorf("change")]
             ELSE [c |-> [c1 EXCEPT !.zones[zoneID] =
                                        ChangeResourceRecordSets(@, cs)],
                   changed |-> TRUE, err |-> NoError]

Failure(c, err) == [c |-> c, changed |-> FALSE, err |-> err]

route53_Advertise(c, inst, options) ==
    IF Len(options) # 0 THEN Failure(c, Errorf("advertise options are not yet supported"))
    ELSE LET z   == route53_lookupZoneID(c, inst.Domain)
             ptr == route53_syncPTR(z.c, z.zone, inst, <<>>)
             srv == route53_syncSRV(ptr.c, z.zone, inst, ptr.cs)
             txt == route53_syncTXT(srv.c, z.zone, inst, srv.cs)
         IN  IF z.err # NoError THEN Failure(z.c, z.err)
             ELSE IF ptr.err # NoError THEN Failure(ptr.c, ptr.err)
             ELSE IF srv.err # NoError THEN Failure(srv.c, srv.err)
             ELSE IF txt.err # NoError THEN Failure(txt.c, txt.err)
             ELSE route53_apply(txt.c, z.zone, txt.cs)

route53_Unadvertise(c, inst) ==
    LET z   == route53_lookupZoneID(c, inst.Domain)
        ptr == route53_deletePTR(z.c, z.zone, inst, <<>>)
        srv == route53_delete(ptr.c, z.zone, inst, "SRV", ptr.cs)
        txt == route53_delete(srv.c, z.zone, inst, "TXT", srv.cs)
    IN  IF z.err # NoError THEN Failure(z.c, z.err)
        ELSE IF ptr.err # NoError THEN Failure(ptr.c, ptr.err)
        ELSE IF srv.err # NoError THEN Failure(srv.c, srv.err)
        ELSE IF txt.err # NoError THEN Failure(txt.c, txt.err)
        ELSE route53_apply(txt.c, z.zone, txt.cs)

\* The accounts the DNSimple client can list.
Accounts == <<"account 1", "account 2">>

RECURSIVE dnsimplex_FindFrom(_, _, _)
\* dnsimplex.Find over the accounts: GetZone is tried on each account in
\* turn, an account without the zone is passed over, and the first zone
\* found is returned.
dnsimplex_FindFrom(c, accounts, domain) ==
    IF Len(accounts) = 0 THEN [c |-> c, zone |-> <<>>, ok |-> FALSE, err |-> NoError]
    ELSE LET c1 == Called(c, "GetZone")
         IN  IF Failed(c1)
             THEN [c |-> c1, zone |-> <<>>, ok |-> FALSE, err |-> Errorf("unable to get zone")]
             ELSE IF domain \in DOMAIN c1.owners /\ c1.owners[domain] = accounts[1]
             THEN [c |-> c1, zone |-> [Name |-> domain, AccountID |-> accounts[1]],
                   ok |-> TRUE, err |-> NoError]
             ELSE dnsimplex_FindFrom(c1, Tail(accounts), domain)

dnsimplex_Find(c, domain) ==
    LET c1 == Called(c, "ListAccounts")
    IN  IF Failed(c1)
        THEN [c |-> c1, zone |-> <<>>, ok |-> FALSE, err |-> Errorf("unable to list accounts")]
        ELSE dnsimplex_FindFrom(c1, Accounts, domain)

dnsimple_lookupZone(c, domain) ==
    IF domain \in DOMAIN c.cache
    THEN [c |-> c, zone |-> c.cache[domain], err |-> NoError]
    ELSE LET f == dnsimplex_Find(c, domain)
         IN  IF f.err # NoError THEN [c |-> f.c, zone |-> <<>>, err |-> f.err]
             ELSE IF ~f.ok
             THEN [c |-> f.c, zone |-> <<>>,
                   err |-> UnsupportedDomainError(domain, "no DNSimple zone found")]
             ELSE [c |-> [f.c EXCEPT !.cache = MapPut(@, domain, f.zone)],
                   zone |-> f.zone, err |-> NoError]

\* RelativeServiceInstanceName: EscapeInstance(inst.Name) + "." + inst.ServiceType
recordName(inst) == EscapeInstance(inst.Name) \o Dot \o inst.ServiceType

\* Zones.ListRecords with a name and a type: the records of a zone are held
\* as a set, a record being its attributes.
dnsimple_ListRecords(c, zone, name, recordType) ==
    LET c1 == Called(c, "ListRecords")
    IN  IF Failed(c1) THEN [c |-> c1, data |-> {}, err |-> Errorf("unable to list records")]
        ELSE [c    |-> c1,
              data |-> {rec \in c1.zones[zone.Name] :
                            rec.Name = name /\ rec.Type = recordType},
              err  |-> NoError]

\* changeSet
NoChanges == [creates |-> <<>>, updates |-> <<>>, deletes |-> <<>>]

changeSet_Create(cs, attr) == [cs EXCEPT !.creates = Append(@, attr)]

changeSet_Update(cs, rec, attr) ==
    IF rec # attr THEN [cs EXCEPT !.updates = Append(@, [Before |-> rec, After |-> attr])]
    ELSE cs

changeSet_Delete(cs, rec) == [cs EXCEPT !.deletes = Append(@, rec)]

\* syncPTR and syncSRV: the record found, if any, is updated to the desired
\* attributes, and created otherwise; found is the set of records that the
\* find function takes for the record of the instance.
dnsimple_syncOne(l, found, desired, cs) ==
    IF l.err # NoError THEN [c |-> l.c, cs |-> cs, err |-> l.err]
    ELSE IF found # {}
    THEN [c |-> l.c, cs |-> changeSet_Update(cs, CHOOSE rec \in found : TRUE, desired),
          err |-> NoError]
    ELSE [c |-> l.c, cs |-> changeSet_Create(cs, desired), err |-> NoError]

\* deletePTR and deleteSRV
dnsimple_deleteOne(l, found, cs) ==
    IF l.err # NoError THEN [c |-> l.c, cs |-> cs, err |-> l.err]
    ELSE IF found # {}
    THEN [c |-> l.c, cs |-> changeSet_Delete(cs, CHOOSE rec \in found : TRUE),
          err |-> NoError]
    ELSE [c |-> l.c, cs |-> cs, err |-> NoError]

\* strings.TrimRight(inst.Absolute(), ".")
ptrContent(inst) == instanceName(inst)

dnsimple_PTR(zone, inst) ==
    [Type |-> "PTR", Name |-> inst.ServiceType, Content |-> ptrContent(inst),
     TTL |-> Seconds(inst.TTL), Priority |-> 0]

dnsimple_SRV(zone, inst) ==
    [Type |-> "SRV", Name |-> recordName(inst),
     Content |-> <<inst.Weight, inst.TargetPort, inst.TargetHost>>,
     TTL |-> Seconds(inst.TTL), Priority |-> inst.Priority]

\* The TXT records that are desired: one per record of NewTXTRecords, the
\* empty one with the content "=".
dnsimple_TXT(zone, inst) ==
    LET txt == NewTXTRecords(inst)
    IN  [n \in 1..Len(txt) |->
            [Type |-> "TXT", Name |-> recordName(inst),
             Content |-> IF txt[n].rdata.Txt = << <<>> >> THEN << <<"=">> >>
                         ELSE txt[n].rdata.Txt,
             TTL |-> Seconds(inst.TTL), Priority |-> 0]]

dnsimple_findPTR(c, zone, inst) == dnsimple_ListRecords(c, zone, inst.ServiceType, "PTR")

dnsimple_syncPTR(c, zone, inst, cs) ==
    LET l == dnsimple_findPTR(c, zone, inst)
    IN  dnsimple_syncOne(l, {rec \in l.data : rec.Content = ptrContent(inst)},
                         dnsimple_PTR(zone, inst), cs)

dnsimple_syncSRV(c, zone, inst, cs) ==
    LET l == dnsimple_ListRecords(c, zone, recordName(inst), "SRV")
    IN  dnsimple_syncOne(l, l.data, dnsimple_SRV(zone, inst), cs)

RECURSIVE dnsimple_matchTXT(_, _, _)
\* syncTXT, the loop over the current records: a current record with the
\* content of a desired one is updated to it, any other is deleted.
dnsimple_matchTXT(current, desired, cs) ==
    IF current = {} THEN [desired |-> desired, cs |-> cs]
    ELSE LET rec  == CHOOSE r \in current : TRUE
             same == {n \in 1..Len(desired) : desired[n].Content = rec.Content}
         IN  IF same # {}
             THEN LET i == CHOOSE n \in same : \A k \in same : n <= k
                  IN  dnsimple_matchTXT(current \ {rec},
                                        SubSeq(desired, 1, i - 1)
                                            \o SubSeq(desired, i + 1, Len(desired)),
                                        changeSet_Update(cs, rec, desired[i]))
             ELSE dnsimple_matchTXT(current \ {rec}, desired, changeSet_Delete(cs, rec))

dnsimple_syncTXT(c, zone, inst, cs) ==
    LET l == dnsimple_ListRecords(c, zone, recordName(inst), "TXT")
        r == dnsimple_matchTXT(l.data, dnsimple_TXT(zone, inst), cs)
    IN  IF l.err # NoError THEN [c |-> l.c, cs |-> cs, err |-> l.err]
        ELSE [c |-> l.c, cs |-> [r.cs EXCEPT !.creates = @ \o r.desired], err |-> NoError]

dnsimple_deletePTR(c, zone, inst, cs) ==
    LET l == dnsimple_findPTR(c, zone, inst)
    IN  dnsimple_deleteOne(l, {rec \in l.data : rec.Content = ptrContent(inst)}, cs)

dnsimple_deleteSRV(c, zone, inst, cs) ==
    LET l == dnsimple_ListRecords(c, zone, recordName(inst), "SRV")
    IN  dnsimple_deleteOne(l, l.data, cs)

RECURSIVE dnsimple_deleteAll(_, _)
dnsimple_deleteAll(current, cs) ==
    IF current = {} THEN cs
    ELSE LET rec == CHOOSE r \in current : TRUE
         IN  dnsimple_deleteAll(current \ {rec}, changeSet_Delete(cs, rec))

dnsimple_deleteTXT(c, zone, inst, cs) ==
    LET l == dnsimple_ListRecords(c, zone, recordName(inst), "TXT")
    IN  IF l.err # NoError THEN [c |-> l.c, cs |-> cs, err |-> l.err]
        ELSE [c |-> l.c, cs |-> dnsimple_deleteAll(l.data, cs), err |-> NoError]

RECURSIVE dnsimple_applyFrom(_, _, _)
\* apply, the three loops: one call of the API per record, the calls before
\* the one that fails having changed the zone.
dnsimple_applyFrom(c, zone, ops) ==
    IF Len(ops) = 0 THEN [c |-> c, changed |-> TRUE, err |-> NoError]
    ELSE LET c1 == Called(c, ops[1].api)
             c2 == [c1 EXCEPT !.zones[zone.Name] = (@ \ ops[1].del) \cup ops[1].add]
         IN  IF Failed(c1) THEN Failure(c1, Errorf("unable to change record"))
             ELSE dnsimple_applyFrom(c2, zone, Tail(ops))

dnsimple_apply(c, zone, cs) ==
    IF cs = NoChanges THEN [c |-> c, changed |-> FALSE, err |-> NoError]
    ELSE dnsimple_applyFrom(
             c, zone,
             [n \in 1..Len(cs.deletes) |->
                 [api |-> "DeleteRecord", del |-> {cs.deletes[n]}, add |-> {}]]
             \o [n \in 1..Len(cs.updates) |->
                 [api |-> "UpdateRecord", del |-> {cs.updates[n].Before},
                  add |-> {cs.updates[n].After}]]
             \o [n \in 1..Len(cs.creates) |->
                 [api |-> "CreateRecord", del |-> {}, add |-> {cs.creates[n]}]])

dnsimple_Advertise(c, inst, options) ==
    IF Len(options) # 0 THEN Failure(c, Errorf("advertise options are not yet supported"))
    ELSE LET z   == dnsimple_lookupZone(c, inst.Domain)
             ptr == dnsimple_syncPTR(z.c, z.zone, inst, NoChanges)
             srv == dnsimple_syncSRV(ptr.c, z.zone, inst, ptr.cs)
             txt == dnsimple_syncTXT(srv.c, z.zone, inst, srv.cs)
         IN  IF z.err # NoError THEN Failure(z.c, z.err)
             ELSE IF ptr.err # NoError THEN Failure(ptr.c, ptr.err)
             ELSE IF srv.err # NoError THEN Failure(srv.c, srv.err)
             ELSE IF txt.err # NoError THEN Failure(txt.c, txt.err)
             ELSE dnsimple_apply(txt.c, z.zone, txt.cs)

dnsimple_Unadvertise(c, inst) ==
    LET z   == dnsimple_lookupZone(c, inst.Domain)
        ptr == dnsimple_deletePTR(z.c, z.zone, inst, NoChanges)
        srv == dnsimple_deleteSRV(ptr.c, z.zone, inst, ptr.cs)
        txt == dnsimple_deleteTXT(srv.c, z.zone, inst, srv.cs)
    IN  IF z.err # NoError THEN Failure(z.c, z.err)
        ELSE IF ptr.err # NoError THEN Failure(ptr.c, ptr.err)
        ELSE IF srv.err # NoError THEN Failure(srv.c, srv.err)
        ELSE IF txt.err # NoError THEN Failure(txt.c, txt.err)
        ELSE dnsimple_apply(txt.c, z.zone, txt.cs)

\* An advertiser that was not used yet: its provider is not chosen, its
\* cache is empty and it made no call.
NoAdvertiser ==
    [provider |-> "none", cache |-> EmptyMap, zones |-> EmptyMap, owners |-> EmptyMap,
     call |-> [op |-> "none"]]

-----------------------------------------------------------------------------
(* The inputs of the model.                                                *)

Letters == <<"A", "B", "C", "D">>

\* "Instance A", "Instance B", ...
Label(n) == <<"Instance", " ", Letters[n]>>

HttpTcp == <<"_http", ".", "_tcp">>

OtherUdp == <<"_other", ".", "_udp">>

ExampleOrg == <<"example", ".", "org">>

HostA == <<"a", ".", "example", ".", "com">>

HostB == <<"b", ".", "example", ".", "com">>

\* {"k": "1"} and {"f"}: a pair and a flag.
AttrsPair == (<<"k">> :> Bytes(<<"1">>))

AttrsFlag == (<<"f">> :> NilBytes)

IPv4 == [form |-> "4in16", addr |-> "192.168.20.1"]

IPv6 == [form |-> "16", addr |-> "fe80::1ce5:3c8b:36f:53cf"]

Printer == <<"_printer">>

BaseInstance(label, serviceType) ==
    [Name |-> label, ServiceType |-> serviceType, Domain |-> ExampleOrg,
     TargetHost |-> HostA, TargetPort |-> 12345, Priority |-> 10, Weight |-> 20,
     Attributes |-> <<>>, TTL |-> 0]

\* An instance and the instances that differ from it in exactly one field.
Variants(i) ==
    {i,
     [i EXCEPT !.TargetHost = HostB],
     [i EXCEPT !.TargetPort = 54321],
     [i EXCEPT !.Priority = 11],
     [i EXCEPT !.Weight = 21],
     [i EXCEPT !.TTL = 60 * Second],
     [i EXCEPT !.Attributes = <<AttrsPair>>],
     [i EXCEPT !.Attributes = <<AttrsPair, AttrsFlag>>]}

OptionLists ==
    {<<>>,
     <<WithServiceSubType(Printer)>>,
     <<WithIPAddress(IPv4)>>,
     <<WithIPAddress(IPv4), WithIPAddress(IPv6)>>}

\* What Advertise is called with: the first label's _http._tcp instance in
\* every variant without options and unchanged with every option list, the
\* other labels' _http._tcp instances (on the same host) and the first
\* label's _other._udp instance.
AdvertiseInputs ==
    (Variants(BaseInstance(Label(1), HttpTcp)) \X {<<>>})
    \cup ({BaseInstance(Label(1), HttpTcp)} \X OptionLists)
    \cup ({BaseInstance(Label(n), HttpTcp) : n \in 2..NumNames}
            \X {<<>>, <<WithIPAddress(IPv4)>>})
    \cup ({BaseInstance(Label(1), OtherUdp)} \X {<<>>})

\* What Unadvertise is called with.
UnadvertiseInputs ==
    {BaseInstance(Label(n), HttpTcp) : n \in 1..NumNames}
    \cup {[BaseInstance(Label(1), HttpTcp) EXCEPT !.TargetHost = HostB],
          BaseInstance(Label(1), OtherUdp)}

-----------------------------------------------------------------------------
(* buildResponse.  A message is a record of the fields the server sets;    *)
(* res.Answer is a slice, and the array it allocates is ReplyArr.          *)

ReplyArr == [owner |-> <<"reply">>, rrtype |-> "", k |-> 0]

NilMsg == [Response |-> FALSE]

\* res.SetReply(req)
SetReply(req) ==
    [Response |-> TRUE, Question |-> <<req.Question[1]>>, Rcode |-> "NOERROR",
     Authoritative |-> FALSE, RecursionAvailable |-> FALSE, Answer |-> NilSlice]

\* No test of the class: a question of any class is answered from the index.
classIgnored(q) == TRUE

\* q.Qclass != dns.ClassINET && q.Qclass != dns.ClassANY, negated.
classSupported(q) == q.Qclass \in {"IN", "ANY"}

\* No record of the queried type, whatever else the name holds.
noRecordsOfType(domainRecords, q) == q.Qtype \notin DOMAIN domainRecords

\* len(records) == 0
noRecords(domainRecords, q) == DOMAIN domainRecords = {}

\* res.Answer = sl: the slice of the index itself.
shareRecords(st, sl) == [arrays |-> st.arrays, slice |-> sl]

\* append([]dns.RR{}, sl...): the elements of sl in an array of their own
\* (the empty slice when there are none).
copyRecords(st, sl) ==
    IF sl.len = 0 THEN [arrays |-> st.arrays, slice |-> [arr |-> ReplyArr, len |-> 0]]
    ELSE [arrays |-> MapPut(st.arrays, ReplyArr, Elems(st.arrays, sl)),
          slice  |-> [arr |-> ReplyArr, len |-> sl.len]]

RECURSIVE appendAll(_, _, _)
\* for _, recs := range records { res.Answer = append(res.Answer, recs...) }
\* with the map ranged over in the given order.
appendAll(st, domainRecords, order) ==
    IF Len(order) = 0 THEN <<>>
    ELSE Elems(st.arrays, domainRecords[order[1]])
            \o appendAll(st, domainRecords, Tail(order))

RECURSIVE Perms(_)
Perms(S) ==
    IF S = {} THEN {<<>>}
    ELSE UNION {{<<x>> \o p : p \in Perms(S \ {x})} : x \in S}

\* The orders in which Go may range over s.records[q.Name].
Orders(st, req) ==
    IF Len(req.Question) # 1 THEN {<<>>}
    ELSE Perms(DOMAIN domainRecordsOf(st, req.Question[1].Name))

\* buildResponse(req), with order the iteration order of the map.  arrays is
\* the heap with the array of res.Answer in it.
buildResponse(st, req, order) ==
    IF Len(req.Question) # 1
    THEN [ok |-> FALSE, res |-> NilMsg, arrays |-> st.arrays]
    ELSE LET q   == req.Question[1]
             res == [SetReply(req) EXCEPT !.Authoritative = TRUE,
                                          !.RecursionAvailable = FALSE]
             domainRecords == domainRecordsOf(st, q.Name)
         IN  IF ~classSupported(q)
             THEN [ok |-> TRUE, res |-> [res EXCEPT !.Rcode = "NXDOMAIN"],
                   arrays |-> st.arrays]
             ELSE IF noRecords(domainRecords, q)
             THEN [ok |-> TRUE, res |-> [res EXCEPT !.Rcode = "NXDOMAIN"],
                   arrays |-> st.arrays]
             ELSE IF q.Qtype = "ANY"
             THEN LET all == appendAll(st, domainRecords, order)
                  IN  [ok |-> TRUE,
                       res |-> [res EXCEPT !.Answer = [arr |-> ReplyArr, len |-> Len(all)]],
                       arrays |-> MapPut(st.arrays, ReplyArr, all)]
             ELSE LET copy == copyRecords(st, typeRecordsOf(st, q.Name, q.Qtype))
                  IN  [ok |-> TRUE, res |-> [res EXCEPT !.Answer = copy.slice],
                       arrays |-> copy.arrays]

-----------------------------------------------------------------------------
(* The inputs of the query handler.                                        *)

Question(name, qtype, qclass) == [Name |-> name, Qtype |-> qtype, Qclass |-> qclass]

Msg(questions) == [Question |-> questions]

Unknown == <<"unknown", ".", "example", ".", "org">>

\* The owner names that are queried: an instance name, the two enumeration
\* domains, a host and a name that nothing is advertised at.
QueryNames ==
    {AbsoluteServiceInstanceName(Label(1), HttpTcp, ExampleOrg) \o Dot,
     InstanceEnumerationDomain(HttpTcp, ExampleOrg) \o Dot,
     TypeEnumerationDomain(ExampleOrg) \o Dot,
     HostA \o Dot,
     Unknown \o Dot}

QueryTypes == {"PTR", "SRV", "TXT", "A", "AAAA", "ANY"}

\* IN, ANY, and two classes the server does not serve.
QueryClasses == {"IN", "ANY", "CH", "NONE"}

\* Messages with one question (every name and type in class IN, two types
\* in the other classes), with no question and with two.
Requests ==
    {Msg(<<Question(n, t, "IN")>>) : n \in QueryNames, t \in QueryTypes}
    \cup {Msg(<<Question(n, t, c)>>) :
            n \in QueryNames, t \in {"SRV", "ANY"}, c \in QueryClasses}
    \cup {Msg(<<>>),
          Msg(<<Question(HostA \o Dot, "A", "IN"), Question(HostA \o Dot, "AAAA", "IN")>>)}

-----------------------------------------------------------------------------
(* The server with every call running to completion: Advertise and         *)
(* Unadvertise hold s.m from their first read to their last write, and the *)
(* handler holds it while it reads.                                        *)

Server == State(services, instances, records, arrays)

NoCall == [op |-> "none"]

Idle == [pc |-> "idle"]

\* Run has not been called.
NotRunning ==
    [pc |-> "idle", parent |-> FALSE, ctx |-> FALSE, timeout |-> 0,
     sd |-> "none", done |-> FALSE, lis |-> "none", err |-> "nil",
     result |-> "none", shutdowns |-> 0, cancelledServing |-> FALSE]

\* The nil *dns.Msg of the resolver.
NoReply == [Rcode |-> "none", Answer |-> <<>>]

\* The nil []string and the nil error.
NilList == [nil |-> TRUE, elems |-> <<>>]

\* No operation of the resolver is running.
NoQuery ==
    [pc |-> "idle", op |-> "none", args |-> <<>>, advertised |-> EmptyMap,
     n |-> 0, i |-> 1, ctx |-> "live", doneAt |-> <<>>,
     conns |-> [j \in 1..NumServers |-> "none"],
     closer |-> [j \in 1..NumServers |-> "none"],
     ctx2 |-> [j \in 1..NumServers |-> FALSE],
     contacted |-> <<>>,
     replies |-> [j \in 1..NumServers |-> NoReply],
     res |-> NoReply,
     result |-> [res |-> NoReply, ok |-> FALSE, err |-> "none"],
     out |-> [list |-> NilList, err |-> "none"],
     found |-> [instance |-> <<>>, ok |-> FALSE, err |-> "none", answers |-> <<>>]]

\* The slices a goroutine holds outside the index: the answer of a reply
\* that is built and not yet discarded.
Held == IF reader.pc = "write" THEN {reader.res.Answer} ELSE {}

Install(st) ==
    LET st1 == Collect(st, Held)
    IN  /\ services'  = st1.services
        /\ instances' = st1.instances
        /\ records'   = st1.records
        /\ arrays'    = st1.arrays

Init ==
    /\ services  = EmptyMap
    /\ instances = EmptyMap
    /\ records   = EmptyMap
    /\ arrays    = EmptyMap
    /\ last      = NoCall
    /\ calls     = 0
    /\ m         = [writer |-> FALSE, readers |-> 0]
    /\ writer    = Idle
    /\ reader    = Idle
    /\ stable    = State(EmptyMap, EmptyMap, EmptyMap, EmptyMap)
    /\ run       = NotRunning
    /\ rq        = NoQuery
    /\ attrSets  = NoAttributes
    /\ fn        = NoCall
    /\ backend   = NoAdvertiser

AdvertiseOf(inputs) ==
    \E call \in inputs :
        LET r == advertise(Server, call[1], call[2])
        IN  /\ calls < MaxCalls
            /\ calls' = calls + 1
            /\ Install(r.st)
            /\ last' = [op |-> "Advertise", changed |-> r.changed]
            /\ UNCHANGED <<backend, attrSets, fn, run, rq, m, writer, reader, stable>>

UnadvertiseOf(inputs) ==
    \E inst \in inputs :
        LET r == unadvertise(Server, inst)
        IN  /\ calls < MaxCalls
            /\ calls' = calls + 1
            /\ Install(r.st)
            /\ last' = [op |-> "Unadvertise", changed |-> r.changed]
            /\ UNCHANGED <<backend, attrSets, fn, run, rq, m, writer, reader, stable>>

Advertise == AdvertiseOf(AdvertiseInputs)

Unadvertise == UnadvertiseOf(UnadvertiseInputs)

Next == Advertise \/ Unadvertise

Spec == Init /\ [][Next]_vars

-----------------------------------------------------------------------------
(* The server answering queries between calls.  The handler runs           *)
(* buildResponse and writes the reply when there is one.                   *)

\* What is advertised and withdrawn while queries are answered.
ServedInputs ==
    {<<[BaseInstance(Label(1), HttpTcp) EXCEPT !.Attributes = <<AttrsPair>>],
       <<WithIPAddress(IPv4), WithIPAddress(IPv6)>>>>,
     <<BaseInstance(Label(2), HttpTcp), <<WithIPAddress(IPv4)>>>>}

WithdrawnInputs == {BaseInstance(Label(1), HttpTcp), BaseInstance(Label(2), HttpTcp)}

Serve == AdvertiseOf(ServedInputs)

Withdraw == UnadvertiseOf(WithdrawnInputs)

\* What w.WriteMsg(res) sends: the header fields and the answer records.
Wire(arrs, res) ==
    [Question |-> res.Question, Rcode |-> res.Rcode,
     Authoritative |-> res.Authoritative,
     RecursionAvailable |-> res.RecursionAvailable,
     Answer |-> Elems(arrs, res.Answer)]

\* The handler with w.Close() after the write instead of deferred.
handlerCloseAfterWrite(st, req, order) ==
    LET r == buildResponse(st, req, order)
    IN  IF r.ok
        THEN <<[call |-> "WriteMsg", msg |-> Wire(r.arrays, r.res)], [call |-> "Close"]>>
        ELSE <<>>

\* The handler: the calls it makes on its dns.ResponseWriter, in order.
\* w.Close() is deferred, so it is the last call on every path.
handler(st, req, order) ==
    LET r == buildResponse(st, req, order)
    IN  (IF r.ok THEN <<[call |-> "WriteMsg", msg |-> Wire(r.arrays, r.res)]>> ELSE <<>>)
        \o <<[call |-> "Close"]>>

\* The messages among the calls made on a dns.ResponseWriter.
Written(w) ==
    LET F[k \in 0..Len(w)] ==
            IF k = 0 THEN <<>>
            ELSE IF w[k].call = "WriteMsg" THEN Append(F[k - 1], w[k].msg) ELSE F[k - 1]
    IN  F[Len(w)]

\* The handler called with a request: w is the calls it made on the writer,
\* written is what it wrote.
Query ==
    \E req \in Requests :
        \E order \in Orders(Server, req) :
            LET w == handler(Server, req, order)
            IN  /\ last' = [op |-> "Query", changed |-> FALSE, req |-> req,
                            written |-> Written(w), w |-> w]
                /\ UNCHANGED <<backend, attrSets, fn, run, rq, services, instances, records, arrays, calls,
                               m, writer, reader, stable>>

NextQuery == Serve \/ Withdraw \/ Query

SpecQuery == Init /\ [][NextQuery]_vars

-----------------------------------------------------------------------------
(* The server with its goroutines interleaved: one goroutine calls         *)
(* Advertise and Unadvertise, one runs the handler.  A step of the caller  *)
(* is one read or write of the maps; state is shared through s.m only.     *)

\* s.m.Lock() returns when no goroutine holds the lock.
canLock(mu) == ~mu.writer /\ mu.readers = 0

\* s.m.RLock() without the lock: it returns at once.
canRLockAlways(mu) == TRUE

\* s.m.RLock() returns when no writer holds the lock.
canRLock(mu) == ~mu.writer

ConcurrentAdvertiseInputs ==
    {<<BaseInstance(Label(1), HttpTcp), <<>>>>,
     <<[BaseInstance(Label(1), HttpTcp) EXCEPT !.Attributes = <<AttrsPair>>], <<>>>>,
     <<BaseInstance(Label(2), HttpTcp), <<>>>>}

ConcurrentUnadvertiseInputs ==
    {BaseInstance(Label(1), HttpTcp), BaseInstance(Label(2), HttpTcp)}

ConcurrentRequests ==
    {Msg(<<Question(AbsoluteServiceInstanceName(Label(1), HttpTcp, ExampleOrg) \o Dot,
                    "ANY", "IN")>>),
     Msg(<<Question(InstanceEnumerationDomain(HttpTcp, ExampleOrg) \o Dot, "PTR", "IN")>>),
     Msg(<<Question(InstanceEnumerationDomain(HttpTcp, ExampleOrg) \o Dot, "PTR", "CH")>>)}

\* Advertise, lines 66-67.
CallAdvertise ==
    \E call \in ConcurrentAdvertiseInputs :
        LET name == AbsoluteServiceInstanceName(call[1].Name, call[1].ServiceType,
                                                call[1].Domain)
        IN  /\ writer.pc = "idle"
            /\ calls < MaxCalls
            /\ writer' = [pc |-> "lock", op |-> "Advertise", inst |-> call[1],
                          name |-> name,
                          recs |-> Allocate(name, NewRecords(call[1], call[2])),
                          n |-> 0, changed |-> FALSE]
            /\ UNCHANGED <<backend, attrSets, fn, run, rq, services, instances, records, arrays, last, calls,
                           m, reader, stable>>

\* Unadvertise, line 113.
CallUnadvertise ==
    \E inst \in ConcurrentUnadvertiseInputs :
        /\ writer.pc = "idle"
        /\ calls < MaxCalls
        /\ writer' = [pc |-> "lock", op |-> "Unadvertise", inst |-> inst,
                      name |-> AbsoluteServiceInstanceName(inst.Name, inst.ServiceType,
                                                           inst.Domain),
                      recs |-> <<>>, n |-> 0, changed |-> FALSE]
        /\ UNCHANGED <<backend, attrSets, fn, run, rq, services, instances, records, arrays, last, calls,
                       m, reader, stable>>

\* s.m.Lock()
WriterLock ==
    /\ writer.pc = "lock"
    /\ canLock(m)
    /\ m' = [m EXCEPT !.writer = TRUE]
    /\ writer' = [writer EXCEPT !.pc = IF writer.op = "Advertise" THEN "check"
                                       ELSE "remove"]
    /\ UNCHANGED <<backend, attrSets, fn, run, rq, services, instances, records, arrays, last, calls, reader, stable>>

\* Advertise, lines 72-74.
CheckRecords ==
    /\ writer.pc = "check"
    /\ writer' = IF hasRecords(Server, writer.recs)
                 THEN [writer EXCEPT !.pc = "unlock", !.changed = FALSE]
                 ELSE [writer EXCEPT !.pc = "remove"]
    /\ UNCHANGED <<backend, attrSets, fn, run, rq, services, instances, records, arrays, last, calls, m, reader, stable>>

\* removeInstance, lines 122-132.
RemoveEntry ==
    /\ writer.pc = "remove"
    /\ IF writer.name \notin DOMAIN instances
       THEN /\ writer' = IF writer.op = "Advertise"
                         THEN [writer EXCEPT !.pc = "count"]
                         ELSE [writer EXCEPT !.pc = "unlock", !.changed = FALSE]
            /\ UNCHANGED <<backend, attrSets, fn, run, rq, services, instances, records, arrays>>
       ELSE /\ writer' = [writer EXCEPT !.pc = "rm", !.n = 1]
            /\ Install(uncountInstance(Server, writer.name))
    /\ UNCHANGED <<backend, attrSets, fn, run, rq, last, calls, m, reader, stable>>

\* removeInstance, lines 134-136: one turn of the loop.
RemoveOne ==
    /\ writer.pc = "rm"
    /\ writer.n <= Len(instances[writer.name].records)
    /\ Install(removeRecord(Server, instances[writer.name].records[writer.n]))
    /\ writer' = [writer EXCEPT !.n = @ + 1]
    /\ UNCHANGED <<backend, attrSets, fn, run, rq, last, calls, m, reader, stable>>

\* removeInstance, lines 138-140.
RemoveDone ==
    /\ writer.pc = "rm"
    /\ writer.n > Len(instances[writer.name].records)
    /\ Install(dropInstance(Server, writer.name))
    /\ writer' = IF writer.op = "Advertise"
                 THEN [writer EXCEPT !.pc = "count"]
                 ELSE [writer EXCEPT !.pc = "unlock", !.changed = TRUE]
    /\ UNCHANGED <<backend, attrSets, fn, run, rq, last, calls, m, reader, stable>>

\* Advertise, lines 84-99.
CountEntry ==
    /\ writer.pc = "count"
    /\ Install(putInstance(countInstance(Server, writer.inst),
                           writer.name, writer.inst, writer.recs))
    /\ writer' = [writer EXCEPT !.pc = "add", !.n = 1]
    /\ UNCHANGED <<backend, attrSets, fn, run, rq, last, calls, m, reader, stable>>

\* Advertise, lines 101-103: one turn of the loop.
AddOne ==
    /\ writer.pc = "add"
    /\ writer.n <= Len(writer.recs)
    /\ Install(addRecord(Server, writer.recs[writer.n]))
    /\ writer' = [writer EXCEPT !.n = @ + 1]
    /\ UNCHANGED <<backend, attrSets, fn, run, rq, last, calls, m, reader, stable>>

\* Advertise, line 105.
AddDone ==
    /\ writer.pc = "add"
    /\ writer.n > Len(writer.recs)
    /\ writer' = [writer EXCEPT !.pc = "unlock", !.changed = TRUE]
    /\ UNCHANGED <<backend, attrSets, fn, run, rq, services, instances, records, arrays, last, calls, m, reader, stable>>

\* The deferred s.m.Unlock() and the return.
WriterUnlock ==
    /\ writer.pc = "unlock"
    /\ m' = [m EXCEPT !.writer = FALSE]
    /\ last' = [op |-> writer.op, changed |-> writer.changed]
    /\ calls' = calls + 1
    /\ stable' = Server
    /\ writer' = Idle
    /\ UNCHANGED <<backend, attrSets, fn, run, rq, services, instances, records, arrays, reader>>

\* The handler is called with a request; buildResponse, lines 281-295.
Receive ==
    \E req \in ConcurrentRequests :
        /\ reader.pc = "idle"
        /\ IF Len(req.Question) = 1 /\ classSupported(req.Question[1])
           THEN reader' = [pc |-> "rlock", req |-> req, res |-> NilMsg, built |-> <<>>]
           ELSE LET r == buildResponse(Server, req, <<>>)
                IN  reader' = [pc |-> IF r.ok THEN "write" ELSE "idle", req |-> req,
                               res |-> r.res, built |-> <<>>]
        /\ UNCHANGED <<backend, attrSets, fn, run, rq, services, instances, records, arrays, last, calls,
                       m, writer, stable>>

\* s.m.RLock()
ReaderRLock ==
    /\ reader.pc = "rlock"
    /\ canRLock(m)
    /\ m' = [m EXCEPT !.readers = @ + 1]
    /\ reader' = [reader EXCEPT !.pc = "read"]
    /\ UNCHANGED <<backend, attrSets, fn, run, rq, services, instances, records, arrays, last, calls, writer, stable>>

\* buildResponse, lines 298-319, and the deferred s.m.RUnlock().  built is
\* the records the answer holds as it is built.
Read ==
    /\ reader.pc = "read"
    /\ \E order \in Orders(Server, reader.req) :
        LET r == buildResponse(Server, reader.req, order)
        IN  /\ reader' = [reader EXCEPT !.pc = "write", !.res = r.res,
                                        !.built = Elems(r.arrays, r.res.Answer)]
            /\ arrays' = r.arrays
            /\ m' = [m EXCEPT !.readers = @ - 1]
            /\ UNCHANGED <<backend, attrSets, fn, run, rq, services, instances, records, last, calls, writer, stable>>

\* w.WriteMsg(res) and w.Close(); the reply is garbage from here on.
Write ==
    /\ reader.pc = "write"
    /\ reader' = Idle
    /\ arrays' = Collect(Server, {}).arrays
    /\ UNCHANGED <<backend, attrSets, fn, run, rq, services, instances, records, last, calls, m, writer, stable>>

NextConcurrent ==
    \/ CallAdvertise \/ CallUnadvertise \/ WriterLock \/ CheckRecords
    \/ RemoveEntry \/ RemoveOne \/ RemoveDone \/ CountEntry \/ AddOne \/ AddDone
    \/ WriterUnlock
    \/ Receive \/ ReaderRLock \/ Read \/ Write

SpecConcurrent == Init /\ [][NextConcurrent]_vars

-----------------------------------------------------------------------------
(* UnicastServer.Run.  Three goroutines take steps: the one that called    *)
(* Run, the one Run starts to shut the server down, and the listener of    *)
(* the dns.Server.  The caller of Run holds the context and may cancel it. *)
(*                                                                         *)
(* What dns.Server does is taken from its contract: ListenAndServe binds   *)
(* and then serves until the server is shut down or the listener fails;    *)
(* Shutdown on a server that is not serving returns an error at once and   *)
(* changes nothing; Shutdown on a serving server stops the listener and    *)
(* returns when its serve loop has ended.                                  *)

\* Durations are in milliseconds.
DefaultUnicastQueryTimeout == 500 * Millisecond

\* The values of UnicastServer.Timeout.
Timeouts == {0 - 1, 0, 250 * Millisecond}

\* timeout := s.Timeout; if timeout <= 0 { timeout = DefaultUnicastQueryTimeout }
queryTimeout(timeout) == IF timeout <= 0 THEN DefaultUnicastQueryTimeout ELSE timeout

\* The errors ListenAndServe returns: none, or an error of the listener.
ListenErrors == {"nil", "listen error"}

\* The messages the listener receives while Run is serving.
RunRequests ==
    {Msg(<<Question(Unknown \o Dot, "ANY", "IN")>>),
     Msg(<<Question(Unknown \o Dot, "ANY", "CH")>>),
     Msg(<<>>)}

\* Run returning the listener's error whatever the context says.
runResultOfListener(ctxDone, err) == err

\* if ctx.Err() != nil { return ctx.Err() }; return err
runResult(ctxDone, err) == IF ctxDone THEN "context.Canceled" ELSE err

\* The deferred receive from done, not blocking.
doneIgnored(r) == TRUE

\* <-done returns once the channel is closed.
doneClosed(r) == r.done

\* Run is called: the timeout, the derived context (done at once when the
\* caller's context is), the shutdown goroutine and the two defers, up to
\* the call of server.ListenAndServe().
RunCall ==
    \E timeout \in Timeouts :
        /\ run.pc = "idle"
        /\ run' = [run EXCEPT !.pc = "listen", !.ctx = run.parent,
                              !.timeout = queryTimeout(timeout),
                              !.sd = "wait", !.lis = "starting"]
        /\ UNCHANGED <<backend, attrSets, fn, services, instances, records, arrays, last, calls,
                       m, writer, reader, stable, rq>>

\* The caller cancels the context it passed, or will pass, to Run.
CancelCtx ==
    /\ ~run.parent
    /\ run' = [run EXCEPT !.parent = TRUE,
                          !.ctx = (run.pc # "idle"),
                          !.cancelledServing = (run.lis = "serving")]
    /\ UNCHANGED <<backend, attrSets, fn, services, instances, records, arrays, last, calls,
                   m, writer, reader, stable, rq>>

\* ListenAndServe binds the address and starts to serve.
Bind ==
    /\ run.pc = "listen"
    /\ run.lis = "starting"
    /\ run' = [run EXCEPT !.lis = "serving"]
    /\ UNCHANGED <<backend, attrSets, fn, services, instances, records, arrays, last, calls,
                   m, writer, reader, stable, rq>>

\* ListenAndServe cannot bind the address.
BindFails ==
    /\ run.pc = "listen"
    /\ run.lis = "starting"
    /\ run' = [run EXCEPT !.lis = "failed", !.err = "listen error"]
    /\ UNCHANGED <<backend, attrSets, fn, services, instances, records, arrays, last, calls,
                   m, writer, reader, stable, rq>>

\* The listener hands a message it received to the handler.
Handle ==
    \E req \in RunRequests :
        \E order \in Orders(Server, req) :
            LET w == handler(Server, req, order)
            IN  /\ run.pc = "listen"
                /\ run.lis = "serving"
                /\ last' = [op |-> "Query", changed |-> FALSE, req |-> req,
                            written |-> Written(w), w |-> w]
                /\ UNCHANGED <<backend, attrSets, fn, services, instances, records, arrays, calls,
                               m, writer, reader, stable, run, rq>>

\* The listener fails while it serves: its serve loop ends with an error.
ListenerFails ==
    /\ run.pc = "listen"
    /\ run.lis = "serving"
    /\ run' = [run EXCEPT !.lis = "ended", !.err = "listen error"]
    /\ UNCHANGED <<backend, attrSets, fn, services, instances, records, arrays, last, calls,
                   m, writer, reader, stable, rq>>

\* The shutdown goroutine: <-ctx.Done() returns.
AwaitCancel ==
    /\ run.pc # "idle"
    /\ run.sd = "wait"
    /\ run.ctx
    /\ run' = [run EXCEPT !.sd = "shutdown"]
    /\ UNCHANGED <<backend, attrSets, fn, services, instances, records, arrays, last, calls,
                   m, writer, reader, stable, rq>>

\* The shutdown goroutine calls server.Shutdown().  A serving server is
\* told to stop; on any other the call returns at once.
ShutdownCall ==
    /\ run.pc # "idle"
    /\ run.sd = "shutdown"
    /\ run' = [run EXCEPT !.shutdowns = @ + 1,
                          !.lis = IF @ = "serving" THEN "stopping" ELSE @,
                          !.sd = IF run.lis = "serving" THEN "shutting" ELSE "close"]
    /\ UNCHANGED <<backend, attrSets, fn, services, instances, records, arrays, last, calls,
                   m, writer, reader, stable, rq>>

\* The serve loop of a server that was told to stop ends, with or without
\* an error of the listener.
ServeEnds ==
    \E err \in ListenErrors :
        /\ run.pc # "idle"
        /\ run.lis = "stopping"
        /\ run' = [run EXCEPT !.lis = "ended", !.err = err]
        /\ UNCHANGED <<backend, attrSets, fn, services, instances, records, arrays, last, calls,
                       m, writer, reader, stable, rq>>

\* server.Shutdown() returns: the serve loop has ended.
ShutdownReturn ==
    /\ run.pc # "idle"
    /\ run.sd = "shutting"
    /\ run.lis = "ended"
    /\ run' = [run EXCEPT !.sd = "close"]
    /\ UNCHANGED <<backend, attrSets, fn, services, instances, records, arrays, last, calls,
                   m, writer, reader, stable, rq>>

\* The shutdown goroutine ends: the deferred close(done).
CloseDone ==
    /\ run.pc # "idle"
    /\ run.sd = "close"
    /\ run' = [run EXCEPT !.sd = "ended", !.done = TRUE]
    /\ UNCHANGED <<backend, attrSets, fn, services, instances, records, arrays, last, calls,
                   m, writer, reader, stable, rq>>

\* err := server.ListenAndServe() returns to Run.
ListenReturn ==
    /\ run.pc = "listen"
    /\ run.lis \in {"failed", "ended"}
    /\ run' = [run EXCEPT !.pc = "check"]
    /\ UNCHANGED <<backend, attrSets, fn, services, instances, records, arrays, last, calls,
                   m, writer, reader, stable, rq>>

\* Run chooses what it returns.
CheckCtx ==
    /\ run.pc = "check"
    /\ run' = [run EXCEPT !.pc = "wait", !.result = runResult(run.ctx, run.err)]
    /\ UNCHANGED <<backend, attrSets, fn, services, instances, records, arrays, last, calls,
                   m, writer, reader, stable, rq>>

\* The defer registered last runs first: <-done.
WaitDone ==
    /\ run.pc = "wait"
    /\ doneClosed(run)
    /\ run' = [run EXCEPT !.pc = "cancel"]
    /\ UNCHANGED <<backend, attrSets, fn, services, instances, records, arrays, last, calls,
                   m, writer, reader, stable, rq>>

\* The defer registered first runs last: cancel().  Run has returned.
DeferredCancel ==
    /\ run.pc = "cancel"
    /\ run' = [run EXCEPT !.pc = "returned", !.ctx = TRUE]
    /\ UNCHANGED <<backend, attrSets, fn, services, instances, records, arrays, last, calls,
                   m, writer, reader, stable, rq>>

\* The steps the goroutines of Run take by themselves.
RunSteps ==
    \/ Bind \/ BindFails \/ AwaitCancel \/ ShutdownCall \/ ServeEnds
    \/ ShutdownReturn \/ CloseDone \/ ListenReturn \/ CheckCtx \/ WaitDone
    \/ DeferredCancel

NextRun == RunCall \/ CancelCtx \/ Handle \/ ListenerFails \/ RunSteps

SpecRun == Init /\ [][NextRun]_vars

\* Every goroutine of Run that can take a step takes one.  RunSteps has no
\* cycle, so fairness of the disjunction is fairness of each step.
SpecRunFair == SpecRun /\ WF_vars(RunSteps)

-----------------------------------------------------------------------------
(* UnicastResolver: query, queryServer and the operations built on them.   *)
(* The goroutine of the caller runs query; queryServer starts one more     *)
(* goroutine per connection, which closes the connection when the context  *)
(* of that server is done.  What a server does (whether it can be dialled, *)
(* whether the exchange fails, what it answers) is chosen at each step.    *)

RECURSIVE parseInstanceLenient(_, _, _)
\* ParseInstance taking a name that ends in an escape for what it holds
\* before it.
parseInstanceLenient(name, escaped, w) ==
    IF Len(name) = 0 THEN [instance |-> w, tail |-> <<>>, err |-> "nil"]
    ELSE LET r == Head(name)
         IN  IF escaped THEN parseInstanceLenient(Tail(name), FALSE, Append(w, r))
             ELSE IF r = "\\" THEN parseInstanceLenient(Tail(name), TRUE, w)
             ELSE IF r = "." THEN [instance |-> w, tail |-> Tail(name), err |-> "nil"]
             ELSE parseInstanceLenient(Tail(name), FALSE, Append(w, r))

RECURSIVE parseInstanceFrom(_, _, _)
\* The loop of ParseInstance over the runes of name.
parseInstanceFrom(name, escaped, w) ==
    IF Len(name) = 0
    THEN IF escaped
         THEN [instance |-> <<>>, tail |-> <<>>, err |-> "terminated with an escape"]
         ELSE [instance |-> w, tail |-> <<>>, err |-> "nil"]
    ELSE LET r == Head(name)
         IN  IF escaped THEN parseInstanceFrom(Tail(name), FALSE, Append(w, r))
             ELSE IF r = "\\" THEN parseInstanceFrom(Tail(name), TRUE, w)
             ELSE IF r = "." THEN [instance |-> w, tail |-> Tail(name), err |-> "nil"]
             ELSE parseInstanceFrom(Tail(name), FALSE, Append(w, r))

\* ParseInstance reading every backslash as a rune of the name.
ParseInstanceEscaped(name) ==
    LET dots == {k \in 1..Len(name) : name[k] = "."}
        stop == IF dots = {} THEN Len(name) + 1
                ELSE CHOOSE k \in dots : \A d \in dots : k <= d
    IN  [instance |-> SubSeq(name, 1, stop - 1),
         tail |-> SubSeq(name, stop + 1, Len(name)), err |-> "nil"]

ParseInstance(name) == parseInstanceFrom(name, FALSE, <<>>)

\* strings.TrimSuffix(str, suffix)
TrimSuffix(str, suffix) ==
    IF /\ Len(str) >= Len(suffix)
       /\ SubSeq(str, Len(str) - Len(suffix) + 1, Len(str)) = suffix
    THEN SubSeq(str, 1, Len(str) - Len(suffix))
    ELSE str

RECURSIVE serviceTypesOf(_, _)
\* The loop of EnumerateServiceTypes over res.Answer.
serviceTypesOf(answer, suffix) ==
    IF Len(answer) = 0 THEN <<>>
    ELSE LET n    == Len(answer)
             head == serviceTypesOf(SubSeq(answer, 1, n - 1), suffix)
             rr   == answer[n]
         IN  IF rr.Rrtype = "PTR" /\ TrimSuffix(rr.rdata.Ptr, suffix) # rr.rdata.Ptr
             THEN Append(head, TrimSuffix(rr.rdata.Ptr, suffix))
             ELSE head

RECURSIVE instancesOf(_)
\* The loop of EnumerateInstances and of EnumerateInstancesBySubType over
\* res.Answer.
instancesOf(answer) ==
    IF Len(answer) = 0 THEN <<>>
    ELSE LET n    == Len(answer)
             head == instancesOf(SubSeq(answer, 1, n - 1))
             rr   == answer[n]
         IN  IF rr.Rrtype = "PTR" /\ ParseInstance(rr.rdata.Ptr).err = "nil"
             THEN Append(head, ParseInstance(rr.rdata.Ptr).instance)
             ELSE head

\* The operations of the resolver that enumerate.
Enumerations ==
    {"EnumerateServiceTypes", "EnumerateInstances", "EnumerateInstancesBySubType"}

\* The name an operation passes to query, for _http._tcp and its sub-type
\* _printer in example.org.
queryName(op) ==
    CASE op = "EnumerateServiceTypes" -> TypeEnumerationDomain(ExampleOrg)
      [] op = "EnumerateInstances" -> InstanceEnumerationDomain(HttpTcp, ExampleOrg)
      [] op = "EnumerateInstancesBySubType" ->
            SelectiveInstanceEnumerationDomain(Printer, HttpTcp, ExampleOrg)

\* req.SetQuestion(name+".", questionType)
queryRequest(name, questionType) == Msg(<<Question(name \o Dot, questionType, "IN")>>)

\* What an operation returns for the result of query.
enumerate(op, result) ==
    IF ~result.ok \/ result.err # "nil"
    THEN [list |-> NilList, err |-> result.err]
    ELSE [list |-> [nil |-> FALSE,
                    elems |-> IF op = "EnumerateServiceTypes"
                              THEN serviceTypesOf(result.res.Answer, Dot \o ExampleOrg \o Dot)
                              ELSE instancesOf(result.res.Answer)],
          err |-> "nil"]

\* The answers of a server: none, the PTR of an instance, the PTR of a type.
ServerAnswers ==
    {<<>>,
     <<NewPTRRecord(BaseInstance(Label(1), HttpTcp))>>,
     <<NewServiceTypePTRRecord(HttpTcp, ExampleOrg, 0)>>}

\* The replies of a server.
ServerReplies ==
    [Rcode : {"NOERROR"}, Answer : ServerAnswers]
    \cup [Rcode : {"NXDOMAIN", "SERVFAIL", "REFUSED"}, Answer : {<<>>}]

\* The rcode test of query with the empty NOERROR reply taken as no answer.
authoritativeWithAnswer(res) ==
    res.Rcode = "NXDOMAIN" \/ (res.Rcode = "NOERROR" /\ Len(res.Answer) > 0)

\* res.Rcode == dns.RcodeNameError || res.Rcode == dns.RcodeSuccess
authoritative(res) == res.Rcode = "NXDOMAIN" \/ res.Rcode = "NOERROR"

\* The loop of query ending at the first server that is skipped.
lastServer(q) == q.n + 1

\* continue: the loop of query goes on with the next server.
nextServer(q) == q.i + 1

\* queryServer without its deferred cancel(): the context of the server is
\* done when its parent is.
noCancelOnReturn(q) == q.ctx # "live"

\* defer cancel() of queryServer.
cancelOnReturn(q) == TRUE

\* query returns.
Return(q, res, ok, err) ==
    LET result == [res |-> res, ok |-> ok, err |-> err]
    IN  [q EXCEPT !.pc = "returned", !.result = result, !.out = enumerate(q.op, result)]

\* An operation is called, with the servers of its configuration.
CallResolver ==
    \E op \in Enumerations, n \in 0..NumServers :
        /\ rq.pc = "idle"
        /\ rq' = [rq EXCEPT !.pc = "loop", !.op = op, !.n = n]
        /\ UNCHANGED <<backend, attrSets, fn, services, instances, records, arrays, last, calls,
                       m, writer, reader, stable, run>>

\* The context of the operation is cancelled or reaches its deadline; the
\* contexts derived from it are done with it.
CtxDone ==
    \E err \in {"context.Canceled", "context.DeadlineExceeded"} :
        /\ rq.pc # "returned"
        /\ rq.ctx = "live"
        /\ rq' = [rq EXCEPT !.ctx = err, !.doneAt = <<rq.pc, rq.i>>,
                            !.ctx2 = [j \in 1..NumServers |-> rq.closer[j] # "none"]]
        /\ UNCHANGED <<backend, attrSets, fn, services, instances, records, arrays, last, calls,
                       m, writer, reader, stable, run>>

\* query: the loop goes to the next server, the context being live.
TryServer ==
    /\ rq.pc = "loop"
    /\ rq.i <= rq.n
    /\ rq.ctx = "live"
    /\ rq' = [rq EXCEPT !.pc = "dial"]
    /\ UNCHANGED <<backend, attrSets, fn, services, instances, records, arrays, last, calls,
                   m, writer, reader, stable, run>>

\* query: if ctx.Err() != nil { return nil, false, ctx.Err() }
AbortQuery ==
    /\ rq.pc = "loop"
    /\ rq.i <= rq.n
    /\ rq.ctx # "live"
    /\ rq' = Return(rq, NoReply, FALSE, rq.ctx)
    /\ UNCHANGED <<backend, attrSets, fn, services, instances, records, arrays, last, calls,
                   m, writer, reader, stable, run>>

\* query: the loop is over; return nil, false, nil.
NoAnswer ==
    /\ rq.pc = "loop"
    /\ rq.i > rq.n
    /\ rq' = Return(rq, NoReply, FALSE, "nil")
    /\ UNCHANGED <<backend, attrSets, fn, services, instances, records, arrays, last, calls,
                   m, writer, reader, stable, run>>

\* queryServer: client.Dial(addr) gives a connection; the goroutine that
\* closes it is started, under a context derived from the operation's.
Dial ==
    /\ rq.pc = "dial"
    /\ rq' = [rq EXCEPT !.pc = "exchange",
                        !.contacted = Append(@, rq.i),
                        !.conns[rq.i] = "open",
                        !.closer[rq.i] = "waiting",
                        !.ctx2[rq.i] = (rq.ctx # "live")]
    /\ UNCHANGED <<backend, attrSets, fn, services, instances, records, arrays, last, calls,
                   m, writer, reader, stable, run>>

\* queryServer: client.Dial(addr) fails; return nil, false.
DialFails ==
    /\ rq.pc = "dial"
    /\ rq' = [rq EXCEPT !.pc = "loop",
                        !.contacted = Append(@, rq.i),
                        !.i = nextServer(rq)]
    /\ UNCHANGED <<backend, attrSets, fn, services, instances, records, arrays, last, calls,
                   m, writer, reader, stable, run>>

\* queryServer: client.ExchangeWithConn(req, conn) returns the reply of the
\* server; the connection is open.
Exchange ==
    \E reply \in ServerReplies :
        /\ rq.pc = "exchange"
        /\ rq.conns[rq.i] = "open"
        /\ rq' = [rq EXCEPT !.pc = "unwind", !.res = reply, !.replies[rq.i] = reply]
        /\ UNCHANGED <<backend, attrSets, fn, services, instances, records, arrays, last, calls,
                       m, writer, reader, stable, run>>

\* queryServer: client.ExchangeWithConn(req, conn) fails: the connection is
\* closed, the server does not answer in time, or the reply is malformed.
ExchangeFails ==
    /\ rq.pc = "exchange"
    /\ rq' = [rq EXCEPT !.pc = "unwind", !.res = NoReply]
    /\ UNCHANGED <<backend, attrSets, fn, services, instances, records, arrays, last, calls,
                   m, writer, reader, stable, run>>

\* queryServer returns res, res != nil, its deferred cancel() runs, and
\* query tests what it got.
ServerDone ==
    /\ rq.pc = "unwind"
    /\ LET q == [rq EXCEPT !.ctx2[rq.i] = cancelOnReturn(rq) \/ @]
       IN  IF rq.res # NoReply /\ authoritative(rq.res)
           THEN rq' = Return(q, rq.res, TRUE, "nil")
           ELSE rq' = [q EXCEPT !.pc = "loop", !.res = NoReply, !.i = nextServer(rq)]
    /\ UNCHANGED <<backend, attrSets, fn, services, instances, records, arrays, last, calls,
                   m, writer, reader, stable, run>>

\* The goroutine of a connection: <-ctx.Done() returns; conn.Close().
CloseConn ==
    \E j \in 1..NumServers :
        /\ rq.closer[j] = "waiting"
        /\ rq.ctx2[j]
        /\ rq' = [rq EXCEPT !.closer[j] = "ended", !.conns[j] = "closed"]
        /\ UNCHANGED <<backend, attrSets, fn, services, instances, records, arrays, last, calls,
                       m, writer, reader, stable, run>>

\* The steps the goroutines of the resolver take by themselves.
ResolverSteps ==
    \/ TryServer \/ AbortQuery \/ NoAnswer \/ Dial \/ DialFails
    \/ Exchange \/ ExchangeFails \/ ServerDone \/ CloseConn

NextResolver == CallResolver \/ CtxDone \/ ResolverSteps

SpecResolver == Init /\ [][NextResolver]_vars

\* Every goroutine of the resolver that can take a step takes one: a dial
\* and an exchange end, by an answer, an error or a timeout of the client.
\* ResolverSteps has no cycle, so fairness of the disjunction is fairness
\* of each step.
SpecResolverFair == SpecResolver /\ WF_vars(ResolverSteps)

-----------------------------------------------------------------------------
(* What the index holds.                                                   *)

\* The records of one type at an owner name, in the order of the slice.
Listed(st, name, rrtype) == Elems(st.arrays, typeRecordsOf(st, name, rrtype))

\* Every record object some slice of the index holds.
Indexed(st) ==
    UNION {UNION {{Listed(st, name, t)[k] : k \in 1..Len(Listed(st, name, t))} :
                     t \in DOMAIN st.records[name]} :
              name \in DOMAIN st.records}

\* The record objects of the index that were allocated for instance name.
AddedFor(st, name) == {rr \in Indexed(st) : rr.ptr.site = name}

Strings(recs) == [n \in DOMAIN recs |-> RRString(recs[n])]

NameOf(inst) == AbsoluteServiceInstanceName(inst.Name, inst.ServiceType, inst.Domain)

ServiceTypes == {HttpTcp, OtherUdp}

\* The advertised instances of service type T in domain D: the entries whose
\* instance PTR record is owned by T.D.
AdvertisedOf(T, D) ==
    {name \in DOMAIN instances :
        instances[name].records[1].Name = InstanceEnumerationDomain(T, D) \o Dot}

\* The positions of the type PTR records for T in D in the index.
TypePTRs(T, D) ==
    LET list == Listed(Server, TypeEnumerationDomain(D) \o Dot, "PTR")
    IN  {k \in 1..Len(list) :
            list[k].rdata = [Ptr |-> InstanceEnumerationDomain(T, D) \o Dot]}

\* An instance is advertised as-is by a call when the entry under its name
\* holds the records the call produces.
AsIs(st, inst, options) ==
    /\ NameOf(inst) \in DOMAIN st.instances
    /\ Strings(st.instances[NameOf(inst)].records) = Strings(NewRecords(inst, options))

-----------------------------------------------------------------------------
(* The resolver against a UnicastServer, as in the tests: the resolver is  *)
(* configured with one server, which is the UnicastServer, the exchange    *)
(* succeeds and the context stays live.  A message crosses the wire: the   *)
(* domain names in it are packed into labels and unpacked into the         *)
(* presentation format again.                                              *)

\* dns.IsFqdn: the name ends with a dot that is not escaped.
IsFqdn(name) ==
    /\ Len(name) > 0
    /\ name[Len(name)] = "."
    /\ (Len(name) = 1 \/ name[Len(name) - 1] # "\\")

RECURSIVE packLabels(_, _, _)
\* The labels of a name in presentation format: an escaped rune is taken
\* as it is, a dot that is not escaped ends a label.
packLabels(name, escaped, label) ==
    IF Len(name) = 0 THEN (IF label = <<>> THEN <<>> ELSE <<label>>)
    ELSE LET r == Head(name)
         IN  IF escaped THEN packLabels(Tail(name), FALSE, Append(label, r))
             ELSE IF r = "\\" THEN packLabels(Tail(name), TRUE, label)
             ELSE IF r = "." THEN <<label>> \o packLabels(Tail(name), FALSE, <<>>)
             ELSE packLabels(Tail(name), FALSE, Append(label, r))

PackDomainName(name) == packLabels(name, FALSE, <<>>)

\* The octets a label is unpacked with a backslash before.
isDomainNameLabelSpecial == {".", " ", "'", "@", ";", "(", ")", "\"", "\\"}

RECURSIVE unpackLabel(_)
unpackLabel(label) ==
    IF Len(label) = 0 THEN <<>>
    ELSE (IF label[1] \in isDomainNameLabelSpecial THEN <<"\\", label[1]>>
                                                   ELSE <<label[1]>>)
         \o unpackLabel(Tail(label))

RECURSIVE UnpackDomainName(_)
UnpackDomainName(labels) ==
    IF Len(labels) = 0 THEN <<>>
    ELSE unpackLabel(labels[1]) \o Dot \o UnpackDomainName(Tail(labels))

\* A domain name as the other side reads it.
OverWire(name) == UnpackDomainName(PackDomainName(name))

\* A record as the other side reads it: a new object with the same header
\* and rdata.
WireRR(rr) ==
    [rr EXCEPT !.ptr = NoPtr,
               !.Name = OverWire(@),
               !.rdata = IF rr.Rrtype = "PTR" THEN [Ptr |-> OverWire(@.Ptr)]
                         ELSE IF rr.Rrtype = "SRV" THEN [@ EXCEPT !.Target = OverWire(@)]
                         ELSE @]

\* The request as the server reads it.
WireRequest(req) ==
    Msg([k \in 1..Len(req.Question) |->
            [req.Question[k] EXCEPT !.Name = OverWire(@)]])

\* client.ExchangeWithConn(req, conn) against a UnicastServer: the request
\* is packed, the handler of the server answers it, and the reply it wrote,
\* if any, is unpacked.
exchangeWith(st, req, order) ==
    IF \E k \in 1..Len(req.Question) : ~IsFqdn(req.Question[k].Name) THEN NoReply
    ELSE LET w == Written(handler(st, WireRequest(req), order))
         IN  IF w = <<>> THEN NoReply
             ELSE [Rcode |-> w[1].Rcode,
                   Answer |-> [k \in 1..Len(w[1].Answer) |-> WireRR(w[1].Answer[k])]]

RECURSIVE queryLive(_)
\* query with a context that stays live: replies holds what queryServer
\* returns for each server of the configuration, in order.
queryLive(replies) ==
    IF Len(replies) = 0 THEN [res |-> NoReply, ok |-> FALSE, err |-> "nil"]
    ELSE IF replies[1] # NoReply /\ authoritative(replies[1])
    THEN [res |-> replies[1], ok |-> TRUE, err |-> "nil"]
    ELSE queryLive(Tail(replies))

\* r.query(ctx, name, questionType) of a resolver whose one server is the
\* UnicastServer.
queryUnicastServer(st, name, questionType, order) ==
    queryLive(<<exchangeWith(st, queryRequest(name, questionType), order)>>)

Local == <<"local">>

Domains == {ExampleOrg, Local}

\* Instance names with a space, a dot and a backslash in them.
DottedName == <<"a", ".", "b">>

SlashedName == <<"c", "\\", "d">>

\* The instances that are advertised on the server the resolver queries.
SeedInstances ==
    {BaseInstance(Label(1), HttpTcp),
     BaseInstance(DottedName, HttpTcp),
     BaseInstance(SlashedName, HttpTcp),
     BaseInstance(Label(2), OtherUdp),
     [BaseInstance(Label(1), HttpTcp) EXCEPT !.Domain = Local]}

\* The Advertise calls made on that server.
SeedInputs ==
    (SeedInstances \X {<<>>})
    \cup {<<BaseInstance(Label(1), HttpTcp), <<WithServiceSubType(Printer)>>>>,
          <<[BaseInstance(Label(1), HttpTcp) EXCEPT !.TTL = 60 * Second], <<>>>>,
          <<[BaseInstance(Label(1), HttpTcp) EXCEPT !.Attributes = <<AttrsPair>>], <<>>>>,
          <<[BaseInstance(Label(1), HttpTcp) EXCEPT !.Attributes = <<AttrsPair, AttrsFlag>>],
            <<>>>>}

\* Advertise, with the instance noted as the one advertised under its name.
Seed ==
    \E call \in SeedInputs :
        LET r == advertise(Server, call[1], call[2])
        IN  /\ calls < MaxCalls
            /\ calls' = calls + 1
            /\ Install(r.st)
            /\ last' = [op |-> "Advertise", changed |-> r.changed]
            /\ rq' = [NoQuery EXCEPT !.advertised =
                         MapPut(rq.advertised, NameOf(call[1]), call[1])]
            /\ UNCHANGED <<backend, attrSets, fn, m, writer, reader, stable, run>>

\* Unadvertise, with the name noted as advertised no more.
Unseed ==
    \E inst \in SeedInstances :
        LET r == unadvertise(Server, inst)
        IN  /\ calls < MaxCalls
            /\ calls' = calls + 1
            /\ Install(r.st)
            /\ last' = [op |-> "Unadvertise", changed |-> r.changed]
            /\ rq' = [NoQuery EXCEPT !.advertised = MapDel(rq.advertised, NameOf(inst))]
            /\ UNCHANGED <<backend, attrSets, fn, m, writer, reader, stable, run>>

\* EnumerateInstances(ctx, serviceType, domain) from its call to its return.
\* What an operation of the resolver returns depends on the server alone, so
\* one operation is followed after each call on the server.
EnumerateInstances ==
    \E T \in ServiceTypes, D \in Domains :
        \E order \in Orders(Server, WireRequest(
                        queryRequest(InstanceEnumerationDomain(T, D), "PTR"))) :
            LET result == queryUnicastServer(
                              Server, InstanceEnumerationDomain(T, D), "PTR", order)
            IN  /\ rq.pc = "idle"
                /\ rq' = [NoQuery EXCEPT !.pc = "returned",
                                        !.op = "EnumerateInstances",
                                        !.args = <<T, D>>,
                                        !.advertised = rq.advertised,
                                        !.n = 1,
                                        !.result = result,
                                        !.out = enumerate("EnumerateInstances", result)]
                /\ UNCHANGED <<backend, attrSets, fn, services, instances, records, arrays, last, calls,
                               m, writer, reader, stable, run>>

RECURSIVE attributesOf(_)
\* The attributes of one TXT record: WithTXT for each of its strings.
attributesOf(txt) ==
    IF Len(txt) = 0 THEN EmptyMap
    ELSE WithTXT(attributesOf(SubSeq(txt, 1, Len(txt) - 1)), txt[Len(txt)]).attrs

\* Attributes.Equal
AttributesEqual(a, attr) ==
    /\ Cardinality(DOMAIN a) = Cardinality(DOMAIN attr)
    /\ \A k \in DOMAIN a :
        /\ k \in DOMAIN attr
        /\ a[k].isNil = attr[k].isNil
        /\ a[k].bytes = attr[k].bytes

RECURSIVE matchFromAny(_, _, _, _)
\* The loop matching each element of c with any equal element of x, one
\* that was matched before included.
matchFromAny(c, x, l, visited) ==
    IF l > Len(c) THEN TRUE
    ELSE IF \E i \in 1..Len(x) : AttributesEqual(c[l], x[i])
         THEN matchFromAny(c, x, l + 1, visited)
         ELSE FALSE

RECURSIVE matchFrom(_, _, _, _)
\* The loop of AttributeCollection.Equal from element l of c on: the first
\* element of x that is not visited and equal to it is visited.
matchFrom(c, x, l, visited) ==
    IF l > Len(c) THEN TRUE
    ELSE LET free == {i \in (1..Len(x)) \ visited : AttributesEqual(c[l], x[i])}
         IN  IF free = {} THEN FALSE
             ELSE matchFrom(c, x, l + 1,
                            visited \cup {CHOOSE i \in free : \A j \in free : i <= j})

\* AttributeCollection.Equal
AttributeCollectionEqual(c, x) == Len(c) = Len(x) /\ matchFrom(c, x, 1, {})

\* ServiceInstance.Equal: every field, the attributes as collections.
ServiceInstanceEqual(a, b) ==
    /\ a.Name = b.Name
    /\ a.ServiceType = b.ServiceType
    /\ a.Domain = b.Domain
    /\ a.TargetHost = b.TargetHost
    /\ a.TargetPort = b.TargetPort
    /\ a.Priority = b.Priority
    /\ a.Weight = b.Weight
    /\ a.TTL = b.TTL
    /\ AttributeCollectionEqual(a.Attributes, b.Attributes)

\* The smallest TTL of the records, as a duration.
minTTL(answers) ==
    (CHOOSE t \in {answers[k].Ttl : k \in 1..Len(answers)} :
        \A k \in 1..Len(answers) : t <= answers[k].Ttl) * Second

RECURSIVE unpackInto(_, _)
\* The answer records merged into the instance, one after the other.
unpackInto(i, answers) ==
    IF Len(answers) = 0 THEN i
    ELSE LET n    == Len(answers)
             rr   == answers[n]
             head == unpackInto(i, SubSeq(answers, 1, n - 1))
         IN  IF rr.Rrtype = "SRV"
             THEN [head EXCEPT !.TargetHost = TrimSuffix(rr.rdata.Target, Dot),
                               !.TargetPort = rr.rdata.Port,
                               !.Priority = rr.rdata.Priority,
                               !.Weight = rr.rdata.Weight]
             ELSE IF rr.Rrtype = "TXT" /\ ~IsEmpty(attributesOf(rr.rdata.Txt))
             THEN [head EXCEPT !.Attributes = Append(@, attributesOf(rr.rdata.Txt))]
             ELSE head

\* What LookupInstance returns for the results of its two queries.
lookup(instance, serviceType, domain, srv, txt) ==
    LET answers == srv.res.Answer \o txt.res.Answer
        hasSRV  == \E k \in 1..Len(answers) : answers[k].Rrtype = "SRV"
        hasTXT  == \E k \in 1..Len(answers) : answers[k].Rrtype = "TXT"
        zero    == [Name |-> instance, ServiceType |-> serviceType, Domain |-> domain,
                    TargetHost |-> <<>>, TargetPort |-> 0, Priority |-> 0, Weight |-> 0,
                    Attributes |-> <<>>, TTL |-> 0]
    IN  IF srv.err # "nil" \/ txt.err # "nil"
        THEN [instance |-> <<>>, ok |-> FALSE,
              err |-> IF srv.err # "nil" THEN srv.err ELSE txt.err, answers |-> answers]
        ELSE IF ~(hasSRV /\ hasTXT)
        THEN [instance |-> <<>>, ok |-> FALSE, err |-> "nil", answers |-> answers]
        ELSE [instance |-> [unpackInto(zero, answers) EXCEPT !.TTL = minTTL(answers)],
              ok |-> TRUE, err |-> "nil", answers |-> answers]

\* The names LookupInstance is called with: those of the instances that
\* may be advertised and one that never is.
LookupNames ==
    {<<i.Name, i.ServiceType, i.Domain>> : i \in SeedInstances}
    \cup {<<<<"Instance", " ", "X">>, HttpTcp, ExampleOrg>>}

\* LookupInstance(ctx, instance, serviceType, domain) from its call to its
\* return, the server unchanged between its two queries.
LookupInstance ==
    \E args \in LookupNames :
        LET name == AbsoluteServiceInstanceName(args[1], args[2], args[3])
            srv  == queryUnicastServer(Server, name, "SRV", <<>>)
            txt  == queryUnicastServer(Server, name, "TXT", <<>>)
        IN  /\ rq.pc = "idle"
            /\ rq' = [NoQuery EXCEPT !.pc = "returned",
                                    !.op = "LookupInstance",
                                    !.args = args,
                                    !.advertised = rq.advertised,
                                    !.n = 1,
                                    !.found = lookup(args[1], args[2], args[3], srv, txt)]
            /\ UNCHANGED <<backend, attrSets, fn, services, instances, records, arrays, last, calls,
                           m, writer, reader, stable, run>>

NextResolve == Seed \/ Unseed \/ EnumerateInstances \/ LookupInstance

SpecResolve == Init /\ [][NextResolve]_vars

-----------------------------------------------------------------------------
(* Claims about Advertise and Unadvertise.                                 *)

\* C1: after any sequence of Advertise and Unadvertise calls, the index
\* holds exactly one service-type PTR record for T in D when at least one
\* instance of T in D is advertised, and none otherwise.
C1_TypePTRCounted ==
    \A T \in ServiceTypes :
        Cardinality(TypePTRs(T, ExampleOrg))
            = IF AdvertisedOf(T, ExampleOrg) # {} THEN 1 ELSE 0

\* An Unadvertise has removed the last _http._tcp instance and its type PTR
\* while _other._udp stays advertised with its type PTR.
C1_Witness ==
    /\ last = [op |-> "Unadvertise", changed |-> TRUE]
    /\ AdvertisedOf(HttpTcp, ExampleOrg) = {}
    /\ TypePTRs(HttpTcp, ExampleOrg) = {}
    /\ AdvertisedOf(OtherUdp, ExampleOrg) # {}
    /\ Cardinality(TypePTRs(OtherUdp, ExampleOrg)) = 1

\* The first of two calls Advertise(i, o) in a row returns changed=true when
\* i was not already advertised as-is.
FirstCallChanged ==
    \A call \in AdvertiseInputs :
        ~AsIs(Server, call[1], call[2]) => advertise(Server, call[1], call[2]).changed

\* The second returns changed=false and leaves the server as the first
\* left it.
SecondCallUnchanged ==
    \A call \in AdvertiseInputs :
        LET first  == advertise(Server, call[1], call[2])
            second == advertise(first.st, call[1], call[2])
        IN  ~second.changed /\ second.st = first.st

\* C2: Advertise is idempotent: of two calls Advertise(i, o) in a row the
\* first returns changed=true when i was not already advertised as-is, the
\* second returns changed=false and leaves services, instances and records
\* unchanged.
C2_AdvertiseTwice == FirstCallChanged /\ SecondCallUnchanged

\* C3: when an instance of the same name is advertised and the call's
\* records differ from the records of the advertised entry, Advertise
\* returns changed=true.
C3_ChangedWhenDifferent ==
    \A call \in AdvertiseInputs :
        (/\ NameOf(call[1]) \in DOMAIN instances
         /\ ~AsIs(Server, call[1], call[2]))
            => advertise(Server, call[1], call[2]).changed

\* C4: after Advertise(i') over an advertised instance of the same name,
\* the index holds the records of i' and, of the records added for that
\* name, none that i' does not produce.
C4_NoStaleRecords ==
    \A call \in AdvertiseInputs :
        LET after == advertise(Server, call[1], call[2]).st
            recs  == NewRecords(call[1], call[2])
        IN  NameOf(call[1]) \in DOMAIN instances
                => /\ hasRecords(after, recs)
                   /\ {RRString(rr) : rr \in AddedFor(after, NameOf(call[1]))}
                        = {RRString(recs[n]) : n \in 1..Len(recs)}

\* C5: Unadvertise returns changed=true iff an entry with the instance's
\* absolute name exists, whatever the other fields of the passed instance,
\* and a second Unadvertise of the same instance returns false.
C5_UnadvertiseChanged ==
    \A inst \in UnadvertiseInputs :
        LET first  == unadvertise(Server, inst)
            second == unadvertise(first.st, inst)
        IN  /\ first.changed <=> NameOf(inst) \in DOMAIN instances
            /\ ~second.changed

\* An Unadvertise has removed one instance, another is still advertised,
\* and the passed instances include one whose target host is not the
\* advertised one.
C5_Witness ==
    /\ last = [op |-> "Unadvertise", changed |-> TRUE]
    /\ NameOf(BaseInstance(Label(1), HttpTcp)) \in DOMAIN instances
    /\ \E inst \in UnadvertiseInputs :
          /\ NameOf(inst) = NameOf(BaseInstance(Label(1), HttpTcp))
          /\ RRString(instances[NameOf(inst)].records[2]) # RRString(NewSRVRecord(inst))

\* C6: after Unadvertise(i) the entry of i is gone and the index holds no
\* record that was added for i: nothing at its instance name, no PTR record
\* that points to it, and none of its address records.
C6_NoRecordRemains ==
    \A inst \in UnadvertiseInputs :
        LET after == unadvertise(Server, inst).st
            name  == NameOf(inst)
        IN  /\ name \notin DOMAIN after.instances
            /\ AddedFor(after, name) = {}
            /\ (name \o Dot) \notin DOMAIN after.records
            /\ \A rr \in Indexed(after) :
                  rr.Rrtype = "PTR" => rr.rdata.Ptr # name \o Dot

\* An Unadvertise has removed an instance whose address record shared a
\* slice with the address record of an instance that is still advertised.
C6_Witness ==
    /\ last = [op |-> "Unadvertise", changed |-> TRUE]
    /\ Len(Listed(Server, HostA \o Dot, "A")) = 1
    /\ Cap(arrays, typeRecordsOf(Server, HostA \o Dot, "A")) = 2

-----------------------------------------------------------------------------
(* Claims about the replies.                                               *)

RRTypes == {"PTR", "SRV", "TXT", "A", "AAAA"}

\* The reply to question q is the one the index calls for: NXDOMAIN when no
\* type has a record at the name, else NOERROR with the records of the
\* queried type in the order of the index or, for ANY, with every record at
\* the name once.
AnsweredFromIndex(q, reply) ==
    LET at == {rr \in Indexed(Server) : rr.Name = q.Name}
    IN  IF \A t \in RRTypes : Listed(Server, q.Name, t) = <<>>
        THEN reply.Rcode = "NXDOMAIN"
        ELSE /\ reply.Rcode = "NOERROR"
             /\ IF q.Qtype = "ANY"
                THEN /\ {reply.Answer[k] : k \in 1..Len(reply.Answer)} = at
                     /\ Len(reply.Answer) = Cardinality(at)
                ELSE reply.Answer = Listed(Server, q.Name, q.Qtype)

\* The last call was a query with the single question of class c.
Asked(classes) ==
    /\ last.op = "Query"
    /\ Len(last.req.Question) = 1
    /\ last.req.Question[1].Qclass \in classes

\* C9: the reply to a single question of class IN is NXDOMAIN iff the index
\* holds no record of any type at the name; otherwise it is NOERROR and
\* answers exactly the records of the queried type at the name, or all
\* records at the name for type ANY.
C9_AnswerFromIndex ==
    Asked({"IN"})
        => /\ Len(last.written) = 1
           /\ AnsweredFromIndex(last.req.Question[1], last.written[1])

\* A class IN query for a type the name has no record of, at a name that
\* has records: NOERROR with an empty answer.
C9_Witness ==
    /\ Asked({"IN"})
    /\ last.req.Question[1].Qtype = "A"
    /\ Listed(Server, last.req.Question[1].Name, "SRV") # <<>>
    /\ last.written[1].Rcode = "NOERROR"
    /\ last.written[1].Answer = <<>>

\* C10: a single question of a class other than IN and ANY is answered
\* NXDOMAIN with an empty answer whatever the index holds; a question of
\* class ANY is answered as the index calls for, like one of class IN.
C10_ClassChecked ==
    /\ Asked(QueryClasses \ {"IN", "ANY"})
          => /\ Len(last.written) = 1
             /\ last.written[1].Rcode = "NXDOMAIN"
             /\ last.written[1].Answer = <<>>
    /\ Asked({"ANY"})
          => /\ Len(last.written) = 1
             /\ AnsweredFromIndex(last.req.Question[1], last.written[1])

\* A class CH query for the SRV record of an advertised instance.
C10_Witness ==
    /\ Asked({"CH"})
    /\ last.req.Question[1].Qtype = "SRV"
    /\ Listed(Server, last.req.Question[1].Name, "SRV") # <<>>
    /\ last.written[1].Rcode = "NXDOMAIN"

-----------------------------------------------------------------------------
(* Claims about the handler running beside Advertise and Unadvertise.      *)

\* The handler builds its reply in this step.
Builds == reader.pc = "read" /\ reader'.pc = "write"

\* C7: every reply is computed from the index as a complete call left it:
\* the reply a handler builds is a reply to its request over the index of
\* the last completed Advertise or Unadvertise, so an ANY answer with an SRV
\* record has a TXT record, and no reply reflects the gap of a replacement.
C7_RepliesFromCompleteCalls ==
    [][Builds =>
          /\ \E order \in Orders(stable, reader.req) :
                LET r == buildResponse(stable, reader.req, order)
                IN  /\ reader'.res.Rcode = r.res.Rcode
                    /\ reader'.built = Elems(r.arrays, r.res.Answer)
          /\ (\E k \in 1..Len(reader'.built) : reader'.built[k].Rrtype = "SRV")
                => (\E k \in 1..Len(reader'.built) : reader'.built[k].Rrtype = "TXT")]_vars

\* A handler with an ANY question for an instance name waits for the lock
\* while Advertise is replacing that instance and has added its PTR and SRV
\* records and not yet its TXT record.
C7_Witness ==
    /\ reader.pc = "rlock"
    /\ reader.req.Question[1].Qtype = "ANY"
    /\ writer.pc = "add"
    /\ writer.n = 3
    /\ writer.name \o Dot = reader.req.Question[1].Name
    /\ writer.name \in DOMAIN stable.instances
    /\ Listed(Server, reader.req.Question[1].Name, "SRV") # <<>>
    /\ Listed(Server, reader.req.Question[1].Name, "TXT") = <<>>

\* C8: the answer of a built reply is a copy: whatever Advertise and
\* Unadvertise do to the index after the read lock is released, the reply
\* holds the records it was built with.
C8_ReplyIsACopy ==
    reader.pc = "write" => Elems(arrays, reader.res.Answer) = reader.built

\* A reply holds two PTR records and, since it was built, Unadvertise has
\* removed the first of them from the index by moving the last record of
\* the slice into its place.
C8_Witness ==
    /\ reader.pc = "write"
    /\ Len(reader.built) = 2
    /\ reader.built[1].Rrtype = "PTR"
    /\ Listed(Server, reader.req.Question[1].Name, "PTR") = <<reader.built[2]>>
    /\ Cap(arrays, typeRecordsOf(Server, reader.req.Question[1].Name, "PTR")) = 2

-----------------------------------------------------------------------------
(* C11: for every received message the handler writes at most one reply    *)
(* and closes the writer on every path.  It writes exactly one reply when  *)
(* the message carries exactly one question and none when the number of    *)
(* questions is not 1; w.Close() is called once, after any write.          *)

CallsOf(w, call) == {k \in 1..Len(w) : w[k].call = call}

C11_OneReplyAndClose ==
    last.op = "Query" =>
        /\ Cardinality(CallsOf(last.w, "WriteMsg")) =
                (IF Len(last.req.Question) = 1 THEN 1 ELSE 0)
        /\ CallsOf(last.w, "Close") = {Len(last.w)}
        /\ Len(last.w) >= 1

\* A message with two questions was handled: nothing written, writer closed.
C11_Witness ==
    /\ last.op = "Query"
    /\ Len(last.req.Question) = 2
    /\ last.w = <<[call |-> "Close"]>>

-----------------------------------------------------------------------------
(* C12: if the context passed to Run is cancelled while the server is      *)
(* serving, Run eventually returns, and what it returns is the context's   *)
(* error, context.Canceled, also when the listener ends with an error of   *)
(* its own.                                                                *)

Returned == run.pc = "returned"

C12_CancelReturnsCtxErr ==
    run.cancelledServing ~> (Returned /\ run.result = "context.Canceled")

\* Run returned context.Canceled after a cancellation while it served, and
\* the listener had ended with an error.
C12_Witness ==
    /\ Returned
    /\ run.cancelledServing
    /\ run.err = "listen error"
    /\ run.result = "context.Canceled"

-----------------------------------------------------------------------------
(* C13: if ListenAndServe returns an error while the caller's context has  *)
(* not been cancelled, Run terminates and returns that error without the   *)
(* caller having to cancel the context: from the moment ListenAndServe has *)
(* returned the error to Run, Run returns or the caller cancels.           *)

ListenerErrorFirst == run.pc = "check" /\ run.err = "listen error" /\ ~run.ctx

C13_ListenerErrorReturned == ListenerErrorFirst ~> (Returned \/ run.parent)

-----------------------------------------------------------------------------
(* C14: Run never returns before the shutdown goroutine has finished: once *)
(* the deferred receive from done is over, server.Shutdown has been called *)
(* and has returned, the goroutine has ended and the listener serves no    *)
(* more.                                                                   *)

C14_ShutdownBeforeReturn ==
    run.pc \in {"cancel", "returned"} =>
        /\ run.shutdowns = 1
        /\ run.sd = "ended"
        /\ run.lis \in {"failed", "ended"}

\* Run returned after a cancellation that shut a serving listener down.
C14_Witness ==
    /\ Returned
    /\ run.cancelledServing
    /\ run.shutdowns = 1
    /\ run.err = "nil"

-----------------------------------------------------------------------------
(* C15: query contacts the configured servers in list order and returns    *)
(* (reply, true, nil) with the reply of the first server that answers      *)
(* NOERROR or NXDOMAIN, a NOERROR reply without answers included; no       *)
(* server later in the list is contacted after such a reply.               *)

\* The servers that have answered NOERROR or NXDOMAIN.
Answering == {j \in 1..NumServers : rq.replies[j].Rcode \in {"NOERROR", "NXDOMAIN"}}

C15_FirstAuthoritativeReply ==
    /\ rq.contacted = [k \in 1..Len(rq.contacted) |-> k]
    /\ \A j \in Answering :
        /\ j = Len(rq.contacted)
        /\ rq.pc \in {"unwind", "returned"}
        /\ rq.pc = "returned" =>
               rq.result = [res |-> rq.replies[j], ok |-> TRUE, err |-> "nil"]

\* The second server answered NOERROR without answers after the first was
\* skipped, and query returned that reply.
C15_Witness ==
    /\ rq.pc = "returned"
    /\ rq.contacted = <<1, 2>>
    /\ rq.replies[1].Rcode = "SERVFAIL"
    /\ rq.result = [res |-> [Rcode |-> "NOERROR", Answer |-> <<>>],
                    ok |-> TRUE, err |-> "nil"]

-----------------------------------------------------------------------------
(* C16: a server that cannot be dialled, whose exchange fails or that      *)
(* answers with another rcode than NOERROR and NXDOMAIN is skipped and the *)
(* next one is tried.  When no server answers NOERROR or NXDOMAIN, an      *)
(* empty list of servers included, and the context is not done, every      *)
(* server has been tried, query returns (nil, false, nil) and the          *)
(* operation returns a nil list and a nil error.                           *)

C16_SkipAndNoAnswer ==
    (rq.pc = "returned" /\ rq.ctx = "live" /\ Answering = {}) =>
        /\ rq.contacted = [k \in 1..rq.n |-> k]
        /\ rq.result = [res |-> NoReply, ok |-> FALSE, err |-> "nil"]
        /\ rq.out = [list |-> NilList, err |-> "nil"]

\* The first server could not be dialled, the exchange with the second was
\* answered SERVFAIL, and the operation returned nil, nil.
C16_Witness ==
    /\ rq.pc = "returned"
    /\ rq.ctx = "live"
    /\ rq.contacted = <<1, 2>>
    /\ rq.conns[1] = "none"
    /\ rq.replies[2].Rcode = "SERVFAIL"
    /\ rq.out = [list |-> NilList, err |-> "nil"]

-----------------------------------------------------------------------------
(* C17: if the context is cancelled or its deadline passes during a query, *)
(* before the turn of a server in the loop or while the exchange with a    *)
(* server is in flight, the last server of the list included, the          *)
(* operation does not return the clean no-answer result (nil, false, nil). *)

\* The context was done while an exchange was in flight, or before the turn
\* of a server.
DoneDuringQuery ==
    /\ rq.doneAt # <<>>
    /\ \/ rq.doneAt[1] = "exchange"
       \/ rq.doneAt[1] \in {"idle", "loop"} /\ rq.doneAt[2] <= rq.n

C17_CtxErrorReturned ==
    (rq.pc = "returned" /\ DoneDuringQuery) =>
        ~(rq.result.ok = FALSE /\ rq.result.err = "nil")

-----------------------------------------------------------------------------
(* C18: every connection queryServer opens is closed, on every path, and   *)
(* the goroutine that closes it ends.                                      *)

C18_ConnectionsClosed ==
    \A j \in 1..NumServers :
        (rq.conns[j] = "open") ~> (rq.conns[j] = "closed" /\ rq.closer[j] = "ended")

\* query has returned the reply of the second server, the context is live
\* and both connections are closed.
C18_Witness ==
    /\ rq.pc = "returned"
    /\ rq.ctx = "live"
    /\ rq.result.ok
    /\ rq.conns = [j \in 1..NumServers |-> IF j <= 2 THEN "closed" ELSE "none"]
    /\ rq.closer = [j \in 1..NumServers |-> IF j <= 2 THEN "ended" ELSE "none"]

-----------------------------------------------------------------------------
(* C19: against a UnicastServer on which the instances I are advertised,   *)
(* EnumerateInstances(T, D) returns, without an error, exactly the names   *)
(* { i.Name : i in I, i.ServiceType = T, i.Domain = D }, unescaped, also   *)
(* when they contain spaces, dots or backslashes; instances that were      *)
(* unadvertised or are of another type or domain are not among them.       *)

\* The names of the advertised instances of type T in domain D.
NamesOf(advertised, T, D) ==
    {advertised[k].Name :
        k \in {x \in DOMAIN advertised :
                  advertised[x].ServiceType = T /\ advertised[x].Domain = D}}


-----------------------------------------------------------------------------
(* C20: against a UnicastServer, LookupInstance(name, type, domain)        *)
(* returns ok=true, without an error, exactly when an instance of that     *)
(* name is advertised; the instance it returns is then Equal to the        *)
(* instance last passed to Advertise under that name, with the TTL of its  *)
(* records, which is the smallest TTL of the SRV and TXT answers; for a    *)
(* name that is not advertised it returns ok=false and a nil error.        *)

\* The instance as its records carry it: the TTL in whole seconds, the
\* default for none.
AsAdvertised(i) == [i EXCEPT !.TTL = ttlInSeconds(i.TTL) * Second]

C20_LookupInstanceEqual ==
    (rq.pc = "returned" /\ rq.op = "LookupInstance") =>
        LET name == AbsoluteServiceInstanceName(rq.args[1], rq.args[2], rq.args[3])
        IN  /\ rq.found.err = "nil"
            /\ rq.found.ok <=> name \in DOMAIN rq.advertised
            /\ rq.found.ok =>
                /\ ServiceInstanceEqual(rq.found.instance, AsAdvertised(rq.advertised[name]))
                /\ rq.found.instance.TTL = minTTL(rq.found.answers)

-----------------------------------------------------------------------------
(* A caller of the Attributes operations: it holds NewAttributes() and     *)
(* calls WithPair, WithFlag, Without and WithTXT on the values it holds,   *)
(* keeping every value it is returned.                                     *)

UpperVersionKey == <<"T", "x", "t", "v", "e", "r", "s">>

\* Keys that are valid, one of them in both cases.
AttributeKeys == {<<"k">>, <<"K">>, <<"a">>}

\* Keys that are not: empty, with an '=', with an octet below 0x20 and with
\* one above 0x7E.
InvalidKeys == {<<>>, <<"k", "=", "1">>, <<"\t">>, <<"k", "DEL">>}

\* The nil slice, the empty slice and a value with an '=' in it.
AttributeValues == {NilBytes, Bytes(<<>>), Bytes(<<"1", "=", "1">>)}

KeyLists ==
    {<<>>, << <<"k">> >>, << <<"K">> >>, << <<"a">>, <<"k">> >>, << <<"k">>, <<>> >>}

TXTStrings ==
    {<<>>, <<"=", "1">>, <<"k">>, <<"K">>, <<"k", "=">>, <<"K", "=", "1", "=", "1">>,
     <<"\t">>, <<"k", "DEL", "=", "1">>}

\* What a caller can see of the Attributes it holds as number h.
Observe(heap, h) ==
    LET a == SetAt(heap, h)
    IN  [Get      |-> [k \in AttributeKeys |-> Get(a, k)],
         HasFlags |-> [k \in AttributeKeys |-> HasFlags(a, <<k>>)],
         Pairs    |-> Pairs(a),
         Flags    |-> Flags(a),
         IsEmpty  |-> IsEmpty(a),
         ToTXT    |-> ToTXT(a)]

Observed(heap) == [h \in 1..Len(heap.sets) |-> Observe(heap, h)]

\* The caller after a call of op on the value it holds as number h: r is
\* what the function handed to mutate does to the map.
Derived(op, h, args, r) ==
    LET mu == mutate(attrSets, attrSets.sets[h], r)
        ok == r.panic = "nil"
    IN  [maps |-> mu.maps,
         sets |-> IF ok THEN Append(attrSets.sets, mu.set) ELSE attrSets.sets,
         made |-> IF ok THEN Append(attrSets.made, [op |-> op, from |-> h, args |-> args])
                  ELSE attrSets.made,
         last |-> [op |-> op, from |-> h, args |-> args, panic |-> r.panic,
                   present |-> ok, err |-> "nil",
                   result |-> IF ok THEN Len(attrSets.sets) + 1 ELSE 0,
                   before |-> [maps |-> attrSets.maps, sets |-> attrSets.sets]]]

Unrelated ==
    UNCHANGED <<services, instances, records, arrays, last, calls, m, writer, reader,
                stable, run, rq, fn, backend>>

CallWithPair ==
    \E h \in 1..Len(attrSets.sets), k \in AttributeKeys \cup InvalidKeys,
       v \in AttributeValues :
        /\ Len(attrSets.sets) < MaxSets
        /\ k \in InvalidKeys => v = NilBytes
        /\ attrSets' = Derived("WithPair", h, <<k, v>>, WithPair(SetAt(attrSets, h), k, v))
        /\ Unrelated

CallWithFlag ==
    \E h \in 1..Len(attrSets.sets), k \in AttributeKeys \cup InvalidKeys :
        /\ Len(attrSets.sets) < MaxSets
        /\ attrSets' = Derived("WithFlag", h, <<k>>, WithFlag(SetAt(attrSets, h), k))
        /\ Unrelated

CallWithout ==
    \E h \in 1..Len(attrSets.sets), keys \in KeyLists :
        /\ Len(attrSets.sets) < MaxSets
        /\ attrSets' = Derived("Without", h, <<keys>>, Without(SetAt(attrSets, h), keys))
        /\ Unrelated

\* a.WithTXT(pair): a itself is returned for a string that is ignored, no
\* set for a key that is not valid.
CallWithTXT ==
    \E h \in 1..Len(attrSets.sets), pair \in TXTStrings :
        LET r  == WithTXT(SetAt(attrSets, h), pair)
            d  == Derived("WithTXT", h, <<pair>>,
                          [panic |-> IF r.ok THEN "nil" ELSE "none", m |-> r.attrs])
            to == IF r.ok THEN d.sets
                  ELSE IF r.same THEN Append(attrSets.sets, attrSets.sets[h])
                  ELSE attrSets.sets
        IN  /\ Len(attrSets.sets) < MaxSets
            /\ attrSets' =
                [d EXCEPT !.sets = to,
                          !.made = IF Len(to) > Len(attrSets.sets)
                                   THEN Append(attrSets.made,
                                               [op |-> "WithTXT", from |-> h, args |-> <<pair>>])
                                   ELSE attrSets.made,
                          !.last = [@ EXCEPT !.panic = "nil", !.present = r.ok,
                                             !.err = r.err,
                                             !.result = IF Len(to) > Len(attrSets.sets)
                                                        THEN Len(to) ELSE 0]]
            /\ Unrelated

NextAttributes == CallWithPair \/ CallWithFlag \/ CallWithout \/ CallWithTXT

SpecAttributes == Init /\ [][NextAttributes]_vars

-----------------------------------------------------------------------------
(* The functions of the package called on their own: fn holds the call     *)
(* made last, its arguments and what it returned.                          *)

\* The characters of keys: letters in both cases, the characters next to
\* the letters in ASCII, a space, a digit and the last printable one.
KeyChars == {"k", "K", "a", "A", "z", "Z", "@", "[", "_", "{", " ", "1", "~"}

\* The keys of up to two characters, and the version tag in two spellings.
KeyInputs ==
    {<<c>> : c \in KeyChars} \cup {<<c, d>> : c \in KeyChars, d \in KeyChars}
    \cup {versionKey, UpperVersionKey}

\* The values a key is held with: as a flag, with the empty value and with
\* a value with an '=' in it.
HeldValues == {NilBytes, Bytes(<<>>), Bytes(<<"1", "=", "1">>)}

\* The maps of attribute sets over the keys a, k and txtvers.
SetContents ==
    UNION {[keys -> HeldValues] : keys \in SUBSET {<<"a">>, <<"k">>, versionKey}}

\* One call is made, of any function with any arguments.
NotCalled == fn = NoCall

OtherVars ==
       UNCHANGED <<services, instances, records, arrays, last, calls, m, writer, reader,
                   stable, run, rq, attrSets, backend>>

\* normalizeAttributeKey(k)
CallNormalize ==
    \E k \in KeyInputs :
        /\ NotCalled
        /\ fn' = [op |-> "normalizeAttributeKey", in |-> [k |-> k],
                  out |-> normalizeAttributeKey(k)]
        /\ OtherVars

\* The operations that take a key, on a set with the map a.
CallKeyed ==
    \E a \in SetContents, k \in {<<"k">>, <<"K">>, <<"a">>, <<"A">>, UpperVersionKey},
       v \in AttributeValues :
        /\ NotCalled
        /\ fn' = [op |-> "keyed", in |-> [a |-> a, k |-> k, v |-> v],
                  out |-> [Get |-> Get(a, k),
                           HasFlags |-> HasFlags(a, <<k>>),
                           WithPair |-> WithPair(a, k, v),
                           WithFlag |-> WithFlag(a, k),
                           Without |-> Without(a, <<k>>)]]
        /\ OtherVars

RECURSIVE FoldTXT(_, _)
\* WithTXT called for each of the strings in turn, on the set the call
\* before returned: ok tells that every call reported true, err is the
\* first error.
FoldTXT(acc, strs) ==
    IF Len(strs) = 0 THEN acc
    ELSE LET r == WithTXT(acc.attrs, strs[1])
         IN  FoldTXT([attrs |-> r.attrs, ok |-> acc.ok /\ r.ok,
                      err |-> IF acc.err # "nil" THEN acc.err ELSE r.err],
                     Tail(strs))

\* a.ToTXT() read back with WithTXT, starting from the empty set.
CallRoundTrip ==
    \E a \in SetContents :
        /\ NotCalled
        /\ fn' = [op |-> "roundTrip", in |-> [a |-> a],
                  out |-> FoldTXT([attrs |-> EmptyMap, ok |-> TRUE, err |-> "nil"],
                                  ToTXT(a))]
        /\ OtherVars

\* a.ToTXT(), the map ranged over in any order.
CallToTXT ==
    \E a \in SetContents :
        \E order \in Perms(DOMAIN a) :
            /\ NotCalled
            /\ fn' = [op |-> "ToTXT", in |-> [a |-> a, order |-> order],
                      out |-> ToTXTFrom(a, order)]
            /\ OtherVars

\* The strings of TXT records: empty, with the '=' first, without an '=',
\* with the empty value, with further '=' in the value, and with keys that
\* are not valid.
TXTInputs ==
    {<<>>, <<"=">>, <<"=", "1">>, <<"k">>, <<"K">>, <<"z", " ">>, <<"k", "=">>,
     <<"k", "=", "1">>, <<"K", "=", "1", "=", "1">>, <<"a", "=", "=">>,
     UpperVersionKey \o <<"=", "1">>, <<"\t">>, <<"k", "DEL", "=", "1">>}

\* a.WithTXT(pair)
CallParseTXT ==
    \E a \in SetContents, pair \in TXTInputs :
        /\ NotCalled
        /\ fn' = [op |-> "WithTXT", in |-> [a |-> a, pair |-> pair],
                  out |-> WithTXT(a, pair)]
        /\ OtherVars

\* The characters of names: a letter, the dot, the backslash and three more
\* of the characters EscapeInstance escapes.
NameChars == {"a", ".", "\\", " ", "@", "\""}

\* The names of up to MaxLabel characters.
Names == UNION {[1..n -> NameChars] : n \in 0..MaxLabel}

\* EscapeInstance(instance), and ParseInstance of what it returns.
CallEscapeInstance ==
    \E instance \in Names :
        /\ NotCalled
        /\ fn' = [op |-> "EscapeInstance", in |-> [instance |-> instance],
                  out |-> [escaped |-> EscapeInstance(instance),
                           parsed |-> ParseInstance(EscapeInstance(instance))]]
        /\ OtherVars

\* ParseInstance(name)
CallParseInstance ==
    \E name \in Names :
        /\ NotCalled
        /\ fn' = [op |-> "ParseInstance", in |-> [name |-> name],
                  out |-> ParseInstance(name)]
        /\ OtherVars

\* The attribute collections of up to three sets, empty ones among them.
Collections ==
    LET sets == {EmptyMap, AttrsPair, AttrsFlag}
    IN  UNION {[1..n -> sets] : n \in 0..3}

\* NewTXTRecords(i)
CallNewTXTRecords ==
    \E c \in Collections, ttl \in {0, 60 * Second} :
        LET i == [BaseInstance(Label(1), HttpTcp) EXCEPT !.Attributes = c, !.TTL = ttl]
        IN  /\ NotCalled
            /\ fn' = [op |-> "NewTXTRecords", in |-> [i |-> i], out |-> NewTXTRecords(i)]
            /\ OtherVars

\* The TTLs of an instance: negative, zero, shorter than a second, whole
\* seconds and seconds with a fraction, the default among them.
TTLs ==
    {0 - Second, 0 - Millisecond, 0, Millisecond, Second - Millisecond, Second,
     Second + Millisecond, 2 * Second - Millisecond, 60 * Second, DefaultTTL,
     DefaultTTL + 500 * Millisecond}

\* 192.168.20.1 as a slice of 4 bytes, a nil slice and a slice of 5 bytes.
IPv4Short == [form |-> "4", addr |-> "192.168.20.1"]

IPOther == [form |-> "4in16", addr |-> "10.0.0.1"]

IPBad == [form |-> "5", addr |-> "1.2.3.4.5"]

IPs == {IPv4, IPv4Short, IPOther, IPv6, NilIP, IPBad}

\* The option lists of up to two options: addresses and a sub-type.
FunctionOptions ==
    LET options == {WithIPAddress(ip) : ip \in IPs} \cup {WithServiceSubType(Printer)}
    IN  UNION {[1..n -> options] : n \in 0..2}

\* NewRecords(i, options...)
CallNewRecords ==
    \E ttl \in TTLs, options \in FunctionOptions, c \in {<<>>, <<AttrsPair, AttrsFlag>>} :
        LET i == [BaseInstance(Label(1), HttpTcp) EXCEPT !.Attributes = c, !.TTL = ttl]
        IN  /\ NotCalled
            /\ fn' = [op |-> "NewRecords", in |-> [i |-> i, options |-> options],
                      out |-> NewRecords(i, options)]
            /\ OtherVars

\* Advertise(ctx, i, options...) on a server that advertises nothing: what
\* it returns and what the server holds after it.
CallAdvertiseOnNew ==
    \E ttl \in TTLs, options \in OptionLists, c \in {<<>>, <<AttrsPair, AttrsFlag>>} :
        LET i == [BaseInstance(Label(1), HttpTcp) EXCEPT !.Attributes = c, !.TTL = ttl]
            r == advertise(State(EmptyMap, EmptyMap, EmptyMap, EmptyMap), i, options)
        IN  /\ NotCalled
            /\ fn' = [op |-> "Advertise", in |-> [i |-> i, options |-> options],
                      out |-> [changed |-> r.changed, services |-> r.st.services,
                               instances |-> r.st.instances]]
            /\ OtherVars

\* ttlInSeconds(ttl)
CallTtlInSeconds ==
    \E ttl \in TTLs :
        /\ NotCalled
        /\ fn' = [op |-> "ttlInSeconds", in |-> [ttl |-> ttl], out |-> ttlInSeconds(ttl)]
        /\ OtherVars

\* {"k"} and {"k": ""}: a flag and a pair with an empty value of one key.
AttrsFlagK == (<<"k">> :> NilBytes)

AttrsEmptyK == (<<"k">> :> Bytes(<<>>))

\* The attribute collections of up to three sets that are compared.
ComparedCollections ==
    LET sets == {EmptyMap, AttrsPair, AttrsFlagK, AttrsEmptyK}
    IN  UNION {[1..n -> sets] : n \in 0..3}

\* c.Equal(x) and x.Equal(c)
CallCollectionEqual ==
    \E c \in ComparedCollections, x \in ComparedCollections :
        /\ NotCalled
        /\ fn' = [op |-> "AttributeCollection.Equal", in |-> [c |-> c, x |-> x],
                  out |-> [equal |-> AttributeCollectionEqual(c, x),
                           reverse |-> AttributeCollectionEqual(x, c)]]
        /\ OtherVars

NextFunctions ==
    \/ CallNormalize
    \/ CallKeyed
    \/ CallRoundTrip
    \/ CallToTXT
    \/ CallParseTXT
    \/ CallEscapeInstance
    \/ CallParseInstance
    \/ CallNewTXTRecords
    \/ CallNewRecords
    \/ CallAdvertiseOnNew
    \/ CallTtlInSeconds
    \/ CallCollectionEqual

SpecFunctions == Init /\ [][NextFunctions]_vars

-----------------------------------------------------------------------------
(* Claims about Attributes.                                                *)

\* The value held as number h was made by op from a value made by before,
\* both called with the key k.
MadeBy(h, op, before, k) ==
    LET mk == attrSets.made[h]
    IN  /\ mk.op = op
        /\ mk.args[1] = k
        /\ attrSets.made[mk.from].op = before
        /\ attrSets.made[mk.from].args[1] = k

\* C21: a key is held as a pair or as a flag, never as both.  For every key
\* k and value v: a set made by WithPair(k, v).WithFlag(k) reports k absent
\* from Get and HasFlags(k) true; a set made by WithFlag(k).WithPair(k, v)
\* reports HasFlags(k) false and Get(k) = (v, true), also when v is nil or
\* empty; and the keys of Pairs() and of Flags() of every set are disjoint.
C21_PairOrFlag ==
    \A h \in 1..Len(attrSets.sets) :
        LET a == SetAt(attrSets, h)
        IN  /\ \A k \in AttributeKeys :
                /\ MadeBy(h, "WithFlag", "WithPair", k) =>
                      ~Get(a, k).ok /\ HasFlags(a, <<k>>)
                /\ MadeBy(h, "WithPair", "WithFlag", k) =>
                      /\ ~HasFlags(a, <<k>>)
                      /\ Get(a, k).ok
                      /\ Get(a, k).v.bytes = attrSets.made[h].args[2].bytes
            /\ DOMAIN Pairs(a) \cap Flags(a) = {}

\* A set was made by WithPair(k, v).WithFlag(k): it holds the flag k and
\* nothing else.
C21_Witness ==
    /\ \E h \in 1..Len(attrSets.sets) : MadeBy(h, "WithFlag", "WithPair", <<"k">>)
    /\ attrSets.last.op = "WithFlag"
    /\ Flags(SetAt(attrSets, Len(attrSets.sets))) = {<<"k">>}

\* The letters of the model and their lower case.
LowerCase ==
    ("A" :> "a") @@ ("B" :> "b") @@ ("E" :> "e") @@ ("F" :> "f") @@ ("K" :> "k") @@
    ("R" :> "r") @@ ("S" :> "s") @@ ("T" :> "t") @@ ("V" :> "v") @@ ("X" :> "x") @@
    ("Z" :> "z")

lowercase(k) ==
    [n \in 1..Len(k) |-> IF k[n] \in DOMAIN LowerCase THEN LowerCase[k[n]] ELSE k[n]]

upper(k) ==
    [n \in 1..Len(k) |->
        IF \E c \in DOMAIN LowerCase : LowerCase[c] = k[n]
        THEN CHOOSE c \in DOMAIN LowerCase : LowerCase[c] = k[n]
        ELSE k[n]]

\* The keys that differ from k in the case of letters only.
CaseVariants(k) == {x \in KeyInputs : lowercase(x) = lowercase(k)}

\* The key of a string of a TXT record.
KeyOfTXT(str) ==
    IF IndexByte(str, "=") = 0 THEN str ELSE SubSeq(str, 1, IndexByte(str, "=") - 1)

\* C22: keys are compared without regard to case and stored in lower case.
\* For every valid key K, normalize(K) = normalize(upper(K)) = lowercase(K);
\* Get, HasFlags, WithPair, WithFlag and Without called with K do what they
\* do called with any case variant of K; and the keys of Pairs(), Flags()
\* and ToTXT() of the sets they return are in lower case.
C22_KeysIgnoreCase ==
    /\ fn.op = "normalizeAttributeKey" =>
        /\ fn.out = [k |-> lowercase(fn.in.k), err |-> "nil"]
        /\ normalizeAttributeKey(upper(fn.in.k)) = fn.out
    /\ fn.op = "keyed" =>
        /\ \A x \in CaseVariants(fn.in.k) :
            /\ Get(fn.in.a, x) = fn.out.Get
            /\ HasFlags(fn.in.a, <<x>>) = fn.out.HasFlags
            /\ WithPair(fn.in.a, x, fn.in.v) = fn.out.WithPair
            /\ WithFlag(fn.in.a, x) = fn.out.WithFlag
            /\ Without(fn.in.a, <<x>>) = fn.out.Without
        /\ \A r \in {fn.out.WithPair.m, fn.out.WithFlag.m, fn.out.Without.m} :
            /\ \A k \in DOMAIN Pairs(r) \cup Flags(r) : k = lowercase(k)
            /\ \A n \in 1..Len(ToTXT(r)) : KeyOfTXT(ToTXT(r)[n]) = lowercase(KeyOfTXT(ToTXT(r)[n]))
        /\ lowercase(fn.in.k) \in DOMAIN fn.out.WithPair.m
        /\ lowercase(fn.in.k) \in Flags(fn.out.WithFlag.m)
        /\ lowercase(fn.in.k) \notin DOMAIN fn.out.Without.m

\* A pair held under k was removed by Without("K") and replaced by
\* WithFlag("K").
C22_Witness ==
    /\ fn.op = "keyed"
    /\ fn.in.k = <<"K">>
    /\ <<"k">> \in DOMAIN Pairs(fn.in.a)
    /\ <<"k">> \notin DOMAIN fn.out.Without.m
    /\ fn.out.Get.ok
    /\ Flags(fn.out.WithFlag.m) = {<<"k">>}

\* C23: for every attribute set A, with flags, pairs with the empty value
\* and pairs whose value holds '=' among them, WithTXT folded over
\* A.ToTXT() from the empty set yields a set Equal to A, every call
\* reporting present=true and no error.
C23_TXTRoundTrip ==
    fn.op = "roundTrip" =>
        /\ AttributesEqual(fn.out.attrs, fn.in.a)
        /\ AttributesEqual(fn.in.a, fn.out.attrs)
        /\ fn.out.ok
        /\ fn.out.err = "nil"

\* A set with a flag, a pair with the empty value and a pair whose value
\* holds an '=' was written and read back.
C23_Witness ==
    /\ fn.op = "roundTrip"
    /\ fn.in.a = (<<"a">> :> NilBytes) @@ (<<"k">> :> Bytes(<<>>))
                 @@ (versionKey :> Bytes(<<"1", "=", "1">>))
    /\ fn.out.attrs = fn.in.a

\* The string ToTXT is to write for the key k of the set a.
TXTOf(a, k) == IF a[k].isNil THEN k ELSE k \o <<"=">> \o a[k].bytes

\* C24: ToTXT() depends on the contents of the set alone: whatever the
\* order the map is ranged over in, it returns the same sequence; the
\* txtvers entry is first whenever there is one and the other keys follow
\* in ascending order; a flag is written as its key, a pair as key=value
\* (key= for the empty value).
C24_ToTXTDeterministic ==
    fn.op = "ToTXT" =>
        LET a   == fn.in.a
            out == fn.out
            key == [n \in 1..Len(out) |-> KeyOfTXT(out[n])]
        IN  /\ \A order \in Perms(DOMAIN a) : ToTXTFrom(a, order) = out
            /\ ToTXT(a) = out
            /\ Len(out) = Cardinality(DOMAIN a)
            /\ {key[n] : n \in 1..Len(out)} = DOMAIN a
            /\ versionKey \in DOMAIN a => key[1] = versionKey
            /\ \A i, j \in 1..Len(out) :
                (i < j /\ key[i] # versionKey /\ key[j] # versionKey) =>
                    StrLess(key[i], key[j])
            /\ \A n \in 1..Len(out) : out[n] = TXTOf(a, key[n])

\* The map was ranged over with txtvers last, and ToTXT returned txtvers
\* first, then the flag a, then the pair k with the empty value.
C24_Witness ==
    /\ fn.op = "ToTXT"
    /\ fn.in.order = << <<"k">>, <<"a">>, versionKey >>
    /\ fn.out = << versionKey \o <<"=", "1", "=", "1">>, <<"a">>, <<"k", "=">> >>

\* C25: WithPair, WithFlag, Without and WithTXT change neither the set they
\* are called on nor any set obtained before: after each call, every
\* Attributes value the caller held before it reports the same Get,
\* HasFlags, Pairs, Flags, IsEmpty and ToTXT as before the call.
C25_ValuesNeverChange ==
    attrSets.last.op # "none" =>
        \A h \in 1..Len(attrSets.last.before.sets) :
            Observe(attrSets, h) = Observe(attrSets.last.before, h)

\* A third set was made from the second, which holds a map of its own, and
\* differs from it.
C25_Witness ==
    /\ Len(attrSets.sets) = 3
    /\ attrSets.last.from = 2
    /\ attrSets.last.result = 3
    /\ attrSets.sets[2] # 0
    /\ SetAt(attrSets, 3) # SetAt(attrSets, 2)
    /\ SetAt(attrSets, 2) # SetAt(attrSets, 1)

\* A key that is not valid: empty, with an '=' or with an octet outside
\* 0x20..0x7E.
HasEquals(k) == \E n \in 1..Len(k) : k[n] = "="

HasUnprintable(k) == \E n \in 1..Len(k) : Ascii[k[n]] < 32 \/ Ascii[k[n]] > 126

InvalidKey(k) == k = <<>> \/ HasEquals(k) \/ HasUnprintable(k)

\* C26: WithTXT(s) returns the receiver unchanged, present=false and no
\* error when s is empty or starts with '='; makes normalize(s) a flag,
\* added or replaced, when s holds no '='; and otherwise splits s at its
\* first '=' into key and value (the value may be empty or hold further
\* '=') and adds or replaces that pair; it then returns present=true.
C26_WithTXTParses ==
    fn.op = "WithTXT" =>
        LET a == fn.in.a
            s == fn.in.pair
            r == fn.out
        IN  /\ (s = <<>> \/ (Len(s) > 0 /\ s[1] = "=")) =>
                r.attrs = a /\ r.same /\ ~r.ok /\ r.err = "nil"
            /\ (s # <<>> /\ ~HasEquals(s) /\ ~HasUnprintable(s)) =>
                /\ r.ok /\ r.err = "nil"
                /\ r.attrs = MapPut(a, lowercase(s), NilBytes)
            /\ \A n \in 2..Len(s) :
                (s[n] = "=" /\ ~HasEquals(SubSeq(s, 1, n - 1))
                 /\ ~HasUnprintable(SubSeq(s, 1, n - 1))) =>
                    /\ r.ok /\ r.err = "nil"
                    /\ r.attrs = MapPut(a, lowercase(SubSeq(s, 1, n - 1)),
                                        Bytes(SubSeq(s, n + 1, Len(s))))

\* "K=1=1" was read into a set that held k as a flag: k is now a pair
\* with the value "1=1".
C26_Witness ==
    /\ fn.op = "WithTXT"
    /\ fn.in.pair = <<"K", "=", "1", "=", "1">>
    /\ <<"k">> \in Flags(fn.in.a)
    /\ fn.out.ok
    /\ fn.out.attrs[<<"k">>] = Bytes(<<"1", "=", "1">>)

\* C27: a key that is not valid (empty, with an '=', or with an octet
\* outside 0x20..0x7E) is never stored: WithPair and WithFlag panic with
\* the error of the key, WithTXT returns the error and present=false, and
\* the set they were called on is left as it was.
C27_InvalidKeyRefused ==
    /\ \A p \in 1..Len(attrSets.maps) :
        \A k \in DOMAIN attrSets.maps[p] : ~InvalidKey(k)
    /\ (attrSets.last.op \in {"WithPair", "WithFlag"}
        /\ InvalidKey(attrSets.last.args[1])) =>
        LET k == attrSets.last.args[1]
        IN  /\ attrSets.last.panic =
                  (IF k = <<>> THEN "key must not be empty"
                   ELSE IF HasEquals(k) THEN "key must not contain '=' character"
                   ELSE "key must contain only printable ASCII characters")
            /\ attrSets.last.result = 0
            /\ attrSets.sets = attrSets.last.before.sets
            /\ Observe(attrSets, attrSets.last.from)
                  = Observe(attrSets.last.before, attrSets.last.from)
    /\ (attrSets.last.op = "WithTXT"
        /\ HasUnprintable(KeyOfTXT(attrSets.last.args[1]))) =>
        /\ attrSets.last.err = "key must contain only printable ASCII characters"
        /\ ~attrSets.last.present
        /\ attrSets.last.result = 0
        /\ Observe(attrSets, attrSets.last.from)
              = Observe(attrSets.last.before, attrSets.last.from)

\* WithFlag was called with a key holding an octet above 0x7E on a set that
\* is not empty, and panicked.
C27_Witness ==
    /\ attrSets.last.op = "WithFlag"
    /\ attrSets.last.args[1] = <<"k", "DEL">>
    /\ attrSets.last.panic # "nil"
    /\ ~IsEmpty(SetAt(attrSets, attrSets.last.from))

-----------------------------------------------------------------------------
(* Claims about instance names and record synthesis.                       *)

\* C28: for every instance label L, with dots, backslashes, spaces and the
\* other escaped characters in it, ParseInstance(EscapeInstance(L)) returns
\* L, an empty tail and no error.
C28_EscapeRoundTrip ==
    fn.op = "EscapeInstance" =>
        fn.out.parsed = [instance |-> fn.in.instance, tail |-> <<>>, err |-> "nil"]

\* A label of a dot, a backslash and a space was escaped and parsed.
C28_Witness ==
    /\ fn.op = "EscapeInstance"
    /\ fn.in.instance = <<".", "\\", " ">>
    /\ fn.out.escaped = <<"\\", ".", "\\", "\\", "\\", " ">>
    /\ fn.out.parsed.instance = fn.in.instance

\* The character at position n of name follows a backslash that is itself
\* not escaped.
IsEscaped(name, n) ==
    LET E[k \in 0..Len(name)] ==
            IF k <= 1 THEN FALSE ELSE name[k - 1] = "\\" /\ ~E[k - 1]
    IN  E[n]

\* The positions of the dots of name that are not escaped.
UnescapedDots(name) == {n \in 1..Len(name) : name[n] = "." /\ ~IsEscaped(name, n)}

\* The characters of name with the backslashes that escape taken out.
Unescaped(name) ==
    LET F[k \in 0..Len(name)] ==
            IF k = 0 THEN <<>>
            ELSE IF name[k] = "\\" /\ ~IsEscaped(name, k) THEN F[k - 1]
            ELSE Append(F[k - 1], name[k])
    IN  F[Len(name)]

\* C29: ParseInstance stops at the first dot that is not escaped and
\* returns what follows it as the tail (the empty tail when there is no
\* such dot); a character after a backslash is taken as it is, whatever it
\* is; and it fails with the error of the terminating escape, returning an
\* empty instance and tail, exactly when the name ends with the escape set.
C29_ParseInstanceStops ==
    fn.op = "ParseInstance" =>
        LET name == fn.in.name
            dots == UnescapedDots(name)
            stop == IF dots = {} THEN Len(name) + 1
                    ELSE CHOOSE n \in dots : \A d \in dots : n <= d
            ends == /\ dots = {}
                    /\ Len(name) > 0
                    /\ name[Len(name)] = "\\"
                    /\ ~IsEscaped(name, Len(name))
        IN  /\ fn.out.err # "nil" <=> ends
            /\ ends => fn.out = [instance |-> <<>>, tail |-> <<>>,
                                 err |-> "terminated with an escape"]
            /\ ~ends =>
                /\ fn.out.instance = Unescaped(SubSeq(name, 1, stop - 1))
                /\ fn.out.tail = SubSeq(name, stop + 1, Len(name))

\* A name of a letter, a dot and a backslash was parsed: the instance is
\* the letter, the tail the backslash, and there is no error.
C29_Witness ==
    /\ fn.op = "ParseInstance"
    /\ fn.in.name = <<"a", ".", "\\">>
    /\ fn.out = [instance |-> <<"a">>, tail |-> <<"\\">>, err |-> "nil"]

\* The sets of a collection that are not empty, in their order.
NonEmptySets(c) ==
    LET F[k \in 0..Len(c)] ==
            IF k = 0 THEN <<>>
            ELSE IF DOMAIN c[k] = {} THEN F[k - 1] ELSE Append(F[k - 1], c[k])
    IN  F[Len(c)]

-----------------------------------------------------------------------------
(* Claims about NewRecords and the TTL of records.                         *)

\* What net.IP makes of a slice: an IPv4 address is a slice of 4 bytes or
\* of 16 bytes with the IPv4-in-IPv6 prefix, any other slice of 16 bytes is
\* an IPv6 address, and a slice of any other length is no address.
IsIPv4(ip) == ip.form \in {"4", "4in16"}

IsIPv6(ip) == ip.form = "16"

\* The addresses passed with WithIPAddress, in the order of the options.
AddressesOf(options) ==
    LET given == SelectSeq2(options, {o \in Range(options) : o.option = "IPAddress"})
    IN  [n \in 1..Len(given) |-> given[n].ip]

\* The address records among recs, in their order: type, owner and address.
AddressRecordsOf(recs) ==
    LET found == SelectSeq2(recs, {rr \in Range(recs) : rr.Rrtype \in {"A", "AAAA"}})
    IN  [n \in 1..Len(found) |->
            [Rrtype |-> found[n].Rrtype, Name |-> found[n].Name,
             addr   |-> IF found[n].Rrtype = "A" THEN found[n].rdata.A.addr
                        ELSE found[n].rdata.AAAA.addr]]

\* C31: for each IP address passed with WithIPAddress, NewRecords emits
\* exactly one address record at TargetHost, an A record when the address
\* is an IPv4 address (in 4 or in 16 bytes) and otherwise an AAAA record
\* when it is an IPv6 address; no address gets both.  (A slice that is no
\* address gets no record.)
C31_OneAddressRecord ==
    fn.op = "NewRecords" =>
        LET ips   == AddressesOf(fn.in.options)
            valid == SelectSeq2(ips, {ip \in Range(ips) : IsIPv4(ip) \/ IsIPv6(ip)})
        IN  AddressRecordsOf(fn.out) =
                [n \in 1..Len(valid) |->
                    [Rrtype |-> IF IsIPv4(valid[n]) THEN "A" ELSE "AAAA",
                     Name   |-> fn.in.i.TargetHost \o Dot,
                     addr   |-> valid[n].addr]]

\* NewRecords was called with an IPv4 address held in 16 bytes and an IPv6
\* address: there is one A record and one AAAA record.
C31_Witness ==
    /\ fn.op = "NewRecords"
    /\ fn.in.options = <<WithIPAddress(IPv4), WithIPAddress(IPv6)>>
    /\ AddressRecordsOf(fn.out) =
          <<[Rrtype |-> "A", Name |-> HostA \o Dot, addr |-> IPv4.addr],
            [Rrtype |-> "AAAA", Name |-> HostA \o Dot, addr |-> IPv6.addr]>>

\* The whole seconds of a duration: the greatest number of seconds that is
\* not longer than it.
WholeSeconds(ttl) ==
    CHOOSE n \in 0..(2 * (DefaultTTL \div Second)) :
        n * Second <= ttl /\ ttl < (n + 1) * Second

\* The TTL the records of an instance with this TTL are to carry.
RecordTTL(ttl) == IF ttl > 0 THEN WholeSeconds(ttl) ELSE DefaultTTL \div Second

\* C32: every record synthesized for an instance carries floor(i.TTL / 1s)
\* when i.TTL is positive and 120 seconds when it is zero or negative, and
\* the service-type PTR record the server creates carries 120 seconds
\* whatever the TTL of the instance.
C32_RecordTTL ==
    /\ fn.op = "NewRecords" =>
          \A n \in 1..Len(fn.out) : fn.out[n].Ttl = RecordTTL(fn.in.i.TTL)
    /\ fn.op = "Advertise" =>
          /\ \A name \in DOMAIN fn.out.instances :
                \A rr \in Range(fn.out.instances[name].records) :
                    rr.Ttl = RecordTTL(fn.in.i.TTL)
          /\ \A enumDomain \in DOMAIN fn.out.services :
                fn.out.services[enumDomain].typeEnumRecord.Ttl = DefaultTTL \div Second

\* An instance with a TTL of 1.999 seconds was advertised with an IPv4 and
\* an IPv6 address: its PTR, SRV, TXT, A and AAAA records carry 1 second and
\* the type PTR record 120.
C32_Witness ==
    /\ fn.op = "Advertise"
    /\ fn.in.i.TTL = 2 * Second - Millisecond
    /\ \E name \in DOMAIN fn.out.instances :
          LET recs == fn.out.instances[name].records
          IN  /\ {rr.Rrtype : rr \in Range(recs)} = {"PTR", "SRV", "TXT", "A", "AAAA"}
              /\ \A rr \in Range(recs) : rr.Ttl = 1
    /\ \E enumDomain \in DOMAIN fn.out.services :
          fn.out.services[enumDomain].typeEnumRecord.Ttl = 120

\* C39 as stated: no record synthesized for an instance carries a TTL of 0
\* seconds; ttlInSeconds returns at least 1 for every TTL, a positive one
\* shorter than a second included.
C39_NeverZero ==
    /\ fn.op = "ttlInSeconds" => fn.out >= 1
    /\ fn.op = "NewRecords" => \A n \in 1..Len(fn.out) : fn.out[n].Ttl >= 1

\* C39, amended: ttlInSeconds returns 0 exactly for a TTL that is positive
\* and shorter than one second, and the records synthesized for an instance
\* carry a TTL of 0 seconds exactly when its TTL is such a duration; for
\* every other TTL the value is at least 1.
C39_ZeroBelowOneSecond ==
    /\ fn.op = "ttlInSeconds" =>
          /\ fn.out >= 0
          /\ fn.out = 0 <=> (0 < fn.in.ttl /\ fn.in.ttl < Second)
    /\ fn.op = "NewRecords" =>
          \A n \in 1..Len(fn.out) :
              /\ fn.out[n].Ttl >= 0
              /\ fn.out[n].Ttl = 0 <=> (0 < fn.in.i.TTL /\ fn.in.i.TTL < Second)

\* The records of an instance with a TTL of 999 milliseconds were
\* synthesized: they carry 0 seconds.
C39_Witness ==
    /\ fn.op = "NewRecords"
    /\ fn.in.i.TTL = Second - Millisecond
    /\ \A n \in 1..Len(fn.out) : fn.out[n].Ttl = 0

-----------------------------------------------------------------------------
(* A provider-backed advertiser in use.  Its provider is chosen with the   *)
(* first call; the zones the provider hosts are those of the account and   *)
(* do not change but through the advertiser.                               *)

Providers == {"route53", "dnsimple"}

\* The calls made of one advertiser.
MaxBackendCalls == 3

\* The API calls one call of an advertiser makes at most.
MaxAPICalls == 10

\* What the provider hosts when the advertiser is first used: the zones
\* example.org and (Route 53) other.org, without records.
Hosted(provider) ==
    IF provider = "route53"
    THEN [NoAdvertiser EXCEPT !.provider = provider,
                              !.zones = (ExampleOrg :> EmptyMap) @@ (OtherOrg :> EmptyMap)]
    ELSE [NoAdvertiser EXCEPT !.provider = provider,
                              !.zones = (ExampleOrg :> {}),
                              !.owners = (ExampleOrg :> Accounts[2])]

\* The instances the advertiser is called with: in the hosted domain two
\* names, one of them with another port and with attributes, and one name
\* in each of two domains that the provider does not host.
BackendInstances ==
    {BaseInstance(Label(n), HttpTcp) : n \in 1..NumNames}
    \cup {[BaseInstance(Label(1), HttpTcp) EXCEPT !.TargetPort = 54321],
          [BaseInstance(Label(1), HttpTcp) EXCEPT !.Attributes = <<AttrsPair>>,
                                                  !.TTL = 60 * Second],
          [BaseInstance(Label(1), HttpTcp) EXCEPT !.Domain = NonExistent],
          [BaseInstance(Label(1), HttpTcp) EXCEPT !.Domain = ZzzOrg]}

\* The advertiser as a call finds it.
Calling(provider, fail) ==
    LET a == IF backend.provider = "none" THEN Hosted(provider) ELSE backend
    IN  [cache |-> a.cache, zones |-> a.zones, owners |-> a.owners,
         api |-> <<>>, fail |-> fail]

\* The advertiser as the call leaves it.
AfterCall(provider, op, inst, options, r) ==
    [provider |-> provider, cache |-> r.c.cache, zones |-> r.c.zones,
     owners |-> r.c.owners,
     call |-> [op |-> op, inst |-> inst, options |-> options, changed |-> r.changed,
               err |-> r.err, api |-> r.c.api, before |-> Calling(provider, 0).zones]]

BackendOther ==
    UNCHANGED <<services, instances, records, arrays, last, m, writer, reader, stable,
                run, rq, attrSets, fn>>

BackendAdvertise ==
    \E provider \in Providers, inst \in BackendInstances,
       options \in {<<>>, <<WithIPAddress(IPv4)>>}, fail \in 0..MaxAPICalls :
        LET c == Calling(provider, fail)
            r == IF provider = "route53" THEN route53_Advertise(c, inst, options)
                 ELSE dnsimple_Advertise(c, inst, options)
        IN  /\ backend.provider \in {"none", provider}
            /\ calls < MaxBackendCalls
            /\ calls' = calls + 1
            /\ backend' = AfterCall(provider, "Advertise", inst, options, r)
            /\ BackendOther

BackendUnadvertise ==
    \E provider \in Providers, inst \in BackendInstances, fail \in 0..MaxAPICalls :
        LET c == Calling(provider, fail)
            r == IF provider = "route53" THEN route53_Unadvertise(c, inst)
                 ELSE dnsimple_Unadvertise(c, inst)
        IN  /\ backend.provider \in {"none", provider}
            /\ calls < MaxBackendCalls
            /\ calls' = calls + 1
            /\ backend' = AfterCall(provider, "Unadvertise", inst, <<>>, r)
            /\ BackendOther

NextBackend == BackendAdvertise \/ BackendUnadvertise

SpecBackend == Init /\ [][NextBackend]_vars

\* The zones the advertiser's provider hosts.
HostedDomains == DOMAIN Hosted(backend.provider).zones

LookupCalls == {"ListHostedZonesByName", "ListAccounts", "GetZone"}

\* The advertiser got as far as asking the provider for the zone and the
\* provider answered: the call was not refused for its options and no call
\* of the API failed.
LookupAnswered ==
    /\ backend.call.err.type # "error"
    /\ backend.call.api # <<>>

-----------------------------------------------------------------------------
(* Claims about the equality of attribute collections.                     *)

\* How many times the set s is in the collection c.  A set is its keys with
\* what each holds, so that a flag and a pair with an empty value differ.
CountOf(c, s) == Cardinality({n \in 1..Len(c) : c[n] = s})

\* The collections are equal as multisets of sets.
SameMultiset(c, x) == \A s \in Range(c) \cup Range(x) : CountOf(c, s) = CountOf(x, s)

\* C34: AttributeCollection.Equal returns true iff the two collections are
\* equal as multisets of attribute sets, whatever the order of the sets; a
\* flag is not equal to a pair with an empty value; and c.Equal(x) is
\* x.Equal(c).
C34_EqualAsMultisets ==
    fn.op = "AttributeCollection.Equal" =>
        /\ fn.out.equal <=> SameMultiset(fn.in.c, fn.in.x)
        /\ fn.out.equal <=> fn.out.reverse

\* Collections of the same sets in another order were found equal, and the
\* same collection with a flag in the place of a pair with an empty value,
\* or with one set twice in the place of another, was not.
C34_Witness ==
    /\ fn.op = "AttributeCollection.Equal"
    /\ fn.in.c = <<AttrsPair, AttrsEmptyK, AttrsPair>>
    /\ fn.in.x = <<AttrsEmptyK, AttrsPair, AttrsPair>>
    /\ fn.out.equal
    /\ ~AttributeCollectionEqual(fn.in.c, <<AttrsFlagK, AttrsPair, AttrsPair>>)
    /\ ~AttributeCollectionEqual(fn.in.c, <<AttrsEmptyK, AttrsEmptyK, AttrsPair>>)

-----------------------------------------------------------------------------
(* Claims about the services map and the record index.                     *)

\* The instance entries that refer to the service entry under enumDomain.
Referring(st, enumDomain) ==
    {name \in DOMAIN st.instances : st.instances[name].serviceRecords = enumDomain}

\* The calls of Advertise that replace the entry of an advertised instance.
Replacing ==
    {call \in AdvertiseInputs :
        /\ NameOf(call[1]) \in DOMAIN instances
        /\ advertise(Server, call[1], call[2]).changed}

\* C35: after any sequence of Advertise and Unadvertise calls the services
\* map has an entry for an enumeration domain iff an instance of that type
\* is advertised, the entry's instanceCount is the number of instance
\* entries referring to it and is never 0 or negative, and an Advertise that
\* replaces an instance leaves every count as it is.
C35_CountsInstances ==
    /\ \A T \in ServiceTypes :
          LET enumDomain == AbsoluteInstanceEnumerationDomain(T, ExampleOrg)
          IN  /\ enumDomain \in DOMAIN services <=> AdvertisedOf(T, ExampleOrg) # {}
              /\ Referring(Server, enumDomain) = AdvertisedOf(T, ExampleOrg)
    /\ \A enumDomain \in DOMAIN services :
          /\ \E T \in ServiceTypes :
                enumDomain = AbsoluteInstanceEnumerationDomain(T, ExampleOrg)
          /\ services[enumDomain].instanceCount =
                Cardinality(Referring(Server, enumDomain))
          /\ services[enumDomain].instanceCount >= 1
    /\ \A call \in Replacing :
          LET after == advertise(Server, call[1], call[2]).st
          IN  /\ DOMAIN after.services = DOMAIN services
              /\ \A enumDomain \in DOMAIN services :
                    after.services[enumDomain].instanceCount =
                        services[enumDomain].instanceCount

\* Two _http._tcp instances and one _other._udp instance are advertised, the
\* counts are 2 and 1, and a call replaces one of the _http._tcp instances.
C35_Witness ==
    /\ Cardinality(DOMAIN services) = 2
    /\ services[AbsoluteInstanceEnumerationDomain(HttpTcp, ExampleOrg)].instanceCount = 2
    /\ services[AbsoluteInstanceEnumerationDomain(OtherUdp, ExampleOrg)].instanceCount = 1
    /\ \E call \in Replacing : call[1].ServiceType = HttpTcp

\* How often the record object rr occurs in the list at its owner and type.
Occurrences(st, rr) ==
    LET list == Listed(st, rr.Name, rr.Rrtype)
    IN  Cardinality({k \in 1..Len(list) : list[k] = rr})

\* The record objects the entries of the two maps hold: the records of every
\* instance entry and the type PTR of every service entry.
HeldByEntries(st) ==
    UNION {Range(st.instances[name].records) : name \in DOMAIN st.instances}
    \cup {st.services[enumDomain].typeEnumRecord : enumDomain \in DOMAIN st.services}

\* C36: after any sequence of Advertise and Unadvertise calls the record
\* index has no empty list and no owner name with an empty type map, every
\* record of an instance entry and every service entry's type PTR occurs
\* exactly once in the list at its owner and rrtype, and every record of
\* the index belongs to an instance entry or to a service entry.
C36_IndexIsExact ==
    /\ \A owner \in DOMAIN records :
          /\ DOMAIN records[owner] # {}
          /\ \A rrtype \in DOMAIN records[owner] :
                Listed(Server, owner, rrtype) # <<>>
    /\ \A rr \in HeldByEntries(Server) : Occurrences(Server, rr) = 1
    /\ Indexed(Server) \subseteq HeldByEntries(Server)

\* Two instances with the same host and address are advertised and the last
\* call unadvertised a third: the list of A records at the host holds two
\* records that differ in the object alone, and the lists of the third
\* instance were emptied and deleted.
C36_Witness ==
    /\ last = [op |-> "Unadvertise", changed |-> TRUE]
    /\ Cardinality(DOMAIN instances) = 2
    /\ \E owner \in DOMAIN records :
          /\ "A" \in DOMAIN records[owner]
          /\ LET list == Listed(Server, owner, "A")
             IN  /\ Len(list) = 2
                 /\ RRString(list[1]) = RRString(list[2])
                 /\ list[1] # list[2]

\* What the entry under name contributed to the index of st: its records,
\* and the type PTR of its service type when no other entry refers to it.
Contributed(st, name) ==
    LET ir == st.instances[name]
    IN  Range(ir.records)
        \cup (IF Referring(st, ir.serviceRecords) = {name}
              THEN {st.services[ir.serviceRecords].typeEnumRecord} ELSE {})

\* The removal of the entry under name took st to after and changed only
\* what name contributed: the other entries are the objects they were, the
\* service entries other instances refer to are kept with their type PTR,
\* and the index holds what it held less the contribution of name, each
\* record once.
OnlyRemoved(st, name, after) ==
    /\ DOMAIN after.instances = DOMAIN st.instances \ {name}
    /\ \A other \in DOMAIN after.instances :
          after.instances[other] = st.instances[other]
    /\ DOMAIN after.services =
          {st.instances[other].serviceRecords : other \in DOMAIN after.instances}
    /\ \A enumDomain \in DOMAIN after.services :
          after.services[enumDomain].typeEnumRecord =
              st.services[enumDomain].typeEnumRecord
    /\ Indexed(after) = Indexed(st) \ Contributed(st, name)
    /\ \A rr \in Indexed(after) : Occurrences(after, rr) = 1

\* The advertised instances that have a record equal in content to a record
\* of another advertised instance.
Sharing ==
    {name \in DOMAIN instances :
        \E other \in DOMAIN instances \ {name} :
            \E rr \in Range(instances[name].records),
               x \in Range(instances[other].records) :
                RRString(rr) = RRString(x)}

\* C37: Unadvertise(i), and the removal step of an Advertise that replaces
\* i, change only what the instance name of i contributed: the entries and
\* records of every other advertised instance stay in the index, each as
\* often as before, also when a removed record has the content of a record
\* of another instance or when the type PTR is shared.
C37_RemovesOnlyItsOwn ==
    /\ \A inst \in UnadvertiseInputs :
          NameOf(inst) \in DOMAIN instances
              => OnlyRemoved(Server, NameOf(inst), unadvertise(Server, inst).st)
    /\ \A call \in Replacing :
          OnlyRemoved(Server, NameOf(call[1]),
                      removeInstance(Server, NameOf(call[1])).st)

\* Two instances of one type with the same host and address are advertised,
\* so the type PTR is shared and the A records are equal in content, and
\* one of them can be unadvertised and can be replaced.
C37_Witness ==
    /\ \E inst \in UnadvertiseInputs :
          /\ NameOf(inst) \in Sharing
          /\ Referring(Server, instances[NameOf(inst)].serviceRecords) # {NameOf(inst)}
          /\ unadvertise(Server, inst).changed
          /\ \E call \in Replacing : NameOf(call[1]) = NameOf(inst)

\* How many records of a list have the content of rr.
CountIn(list, rr) == Cardinality({k \in 1..Len(list) : RRString(list[k]) = RRString(rr)})

\* Two lists of records hold the same records equally often.
SameRecords(l1, l2) ==
    /\ Len(l1) = Len(l2)
    /\ \A rr \in Range(l1) \cup Range(l2) : CountIn(l1, rr) = CountIn(l2, rr)

\* The three maps of two states of the server hold the same, the lists of
\* the index compared without their order.
SameIndices(s1, s2) ==
    /\ s1.services = s2.services
    /\ s1.instances = s2.instances
    /\ DOMAIN s1.records = DOMAIN s2.records
    /\ \A owner \in DOMAIN s1.records :
          /\ DOMAIN s1.records[owner] = DOMAIN s2.records[owner]
          /\ \A rrtype \in DOMAIN s1.records[owner] :
                SameRecords(Listed(s1, owner, rrtype), Listed(s2, owner, rrtype))

\* The calls of Advertise for an instance that is not advertised.
Fresh == {call \in AdvertiseInputs : NameOf(call[1]) \notin DOMAIN instances}

\* C38: from every state reachable by calls of Advertise and Unadvertise,
\* for an instance i that is not advertised, Advertise(i, o) followed by
\* Unadvertise(i) leaves services, instances and records with the contents
\* they had before the Advertise, the lists of records compared as multisets
\* per owner and rrtype.
C38_AdvertiseThenUnadvertise ==
    \A call \in Fresh :
        LET advertised   == advertise(Server, call[1], call[2])
            unadvertised == unadvertise(advertised.st, call[1])
        IN  /\ advertised.changed
            /\ ~SameIndices(advertised.st, Server)
            /\ SameIndices(unadvertised.st, Server)

\* An instance is advertised with an address, calls were made before, and a
\* call of Advertise can add a second instance of its type at the same host
\* and address, which Unadvertise then removes again.
C38_Witness ==
    /\ calls >= 2
    /\ \E call \in Fresh :
          /\ call[2] = <<WithIPAddress(IPv4)>>
          /\ \E other \in DOMAIN instances :
                /\ instances[other].serviceRecords =
                      AbsoluteInstanceEnumerationDomain(call[1].ServiceType, call[1].Domain)
                /\ \E rr \in Range(instances[other].records) :
                      /\ rr.Rrtype = "A"
                      /\ rr.Name = call[1].TargetHost \o Dot
          /\ unadvertise(advertise(Server, call[1], call[2]).st, call[1]).changed

====
